---- MODULE Spec2Model ----
(***************************************************************************)
(* Team X-Ray: the size-adaptive sampling / chunking / fallback pipeline   *)
(* of ExpertiseAnalyzer (src/src/core/expertise-analyzer.ts, the class     *)
(* that starts at line 1113) together with the parts of TokenManager       *)
(* (src/unnamed/part_004) and ErrorHandler it calls.                       *)
(*                                                                         *)
(* Specifications:                                                         *)
(*   SpecSampler  the three samplers applied to arbitrary short lists      *)
(*   SpecGather   assessRepositorySize + gatherRepositoryData with the     *)
(*                program's SIZE_LIMITS                                    *)
(*   SpecMerge    mergeChunkResults over parsed chunk results              *)
(*   Spec         one run of analyzeRepository: token, assess, gather,     *)
(*                standard / chunked / fallback analysis                   *)
(*   FairSpec     Spec where every wait for the outside ends               *)
(*   SpecContributors  GitService.getContributors over shortlog output     *)
(*   SpecError    ErrorHandler.handleError and withErrorHandling           *)
(*   SpecCommand  overlapping invocations of the analyze command           *)
(*   SpecProcess  ResourceManager: child processes, timeouts, cancellation *)
(*   SpecExtract  extractJSONFromResponse on plain and fenced JSON texts   *)
(*   SpecStore    saveAnalysis / getLastAnalysis through workspaceState    *)
(*   SpecToken    overlapping TokenManager calls and the token command     *)
(***************************************************************************)
EXTENDS Integers, Sequences, FiniteSets, TLC

VARIABLES
    pc,               \* position of the running operation
    allFiles,         \* getWorkspaceFiles(): the workspace's file list
    allCommits,       \* getLocalGitCommits(): the commit list
    allContributors,  \* getLocalGitContributors(): the contributor list
    limit,            \* SpecSampler: the limit handed to a sampler
    sampled,          \* SpecSampler: [op, input, out] of the sampler last applied
    repoStats,        \* RepositoryStats returned by assessRepositorySize
    repositoryData,   \* the object returned by gatherRepositoryData
    heap,             \* the Expert and insight objects allocated so far
    contents,         \* SpecMerge: the model replies the chunk results were parsed from
    chunkResults,     \* SpecMerge: the chunk results handed to mergeChunkResults
    merged,           \* SpecMerge: the analysis returned by the last merge
    workspace,        \* whether vscode.workspace.workspaceFolders has a folder
    secret,           \* context.secrets: the stored token, "" when there is none
    cachedToken,      \* TokenManager.cachedToken, "" for null
    validationCache,  \* TokenManager.tokenValidationCache: token -> "none", "valid", "invalid"
    stack,            \* the performChunkedAnalysis calls in progress, outermost first
    callData,         \* the repositoryData argument of the performStandardAnalysis call in progress
    smartResult,      \* the value performSmartAIAnalysis returned
    returnValue,      \* the value analyzeRepository returned
    errorsReported,   \* number of ErrorHandler.handleError calls
    firstReply,       \* history: the completion API's answer to the run's first call
    replyKinds,       \* history: the kinds of answer the completion API gave in the run
    outerYield,       \* history: chunk results the outermost chunked analysis collected, -1 before it ends
    lastOutcome,      \* history: how the last performStandardAnalysis call ended
    shortlog,         \* SpecContributors: the lines `git shortlog -sne --all` printed
    gitContributors,  \* SpecContributors: the list GitService.getContributors returned
    raised,           \* SpecError: the value thrown or handed to handleError
    shown,            \* SpecError: the messages ErrorHandler has shown
    commandRuns,      \* SpecCommand: where each invocation of the command stands
    lastAnalysis,     \* SpecCommand: workspaceState's 'lastAnalysis'
    processes,        \* SpecProcess: the child processes executeCommand spawned
    activeProcesses,  \* SpecProcess: ResourceManager.activeProcesses
    cancellation,     \* SpecProcess: whether the progress token's cancellation was requested
    taskState,        \* SpecProcess: where the task wrapped by withProgress stands
    jsonText,         \* SpecExtract: a JSON object text J
    fenced,           \* SpecExtract: J wrapped in a Markdown fence
    extracted,        \* SpecExtract: what extractJSONFromResponse returned for each
    savedAnalysis,    \* SpecStore: the analysis handed to saveAnalysis
    workspaceState,   \* SpecStore: the value workspaceState holds under 'lastAnalysis'
    loaded,           \* SpecStore: the value getLastAnalysis returned
    tokenCalls,       \* SpecToken: the TokenManager calls in progress and their outcomes
    infoMessages      \* SpecToken: the information messages the set-token command showed

dataVars == <<allFiles, allCommits, allContributors>>
samplerVars == <<limit, sampled>>
gatherVars == <<repoStats, repositoryData>>
mergeVars == <<contents, chunkResults, merged>>
tokenVars == <<secret, cachedToken, validationCache>>
runVars == <<workspace, stack, callData, smartResult, returnValue, errorsReported>>
historyVars == <<firstReply, replyKinds, outerYield, lastOutcome>>
gitVars == <<shortlog, gitContributors>>
errorVars == <<raised, shown>>
slotVars == <<commandRuns, lastAnalysis>>
procVars == <<processes, activeProcesses, cancellation, taskState>>
textVars == <<jsonText, fenced, extracted>>
storeVars == <<savedAnalysis, workspaceState, loaded>>
callVars == <<tokenCalls, infoMessages>>
laterVars == <<gitVars, errorVars, slotVars, procVars, textVars, storeVars, callVars>>
coreVars == <<dataVars, samplerVars, gatherVars, heap, mergeVars, tokenVars, runVars,
              historyVars>>

vars == <<pc, dataVars, samplerVars, gatherVars, heap, mergeVars, tokenVars, runVars,
          historyVars, laterVars>>

\* a variable that holds no object yet
NoValue == [none |-> TRUE]

\* the token in the secret store when the extension starts, and the one the
\* user may type into the prompt
Tokens == {"stored token", "typed token"}

(***************************************************************************)
(* Bounds of the model.                                                    *)
(***************************************************************************)
MaxLen == 5        \* SpecSampler: longest list handed to a sampler
MaxLimit == 4      \* SpecSampler: largest limit handed to a sampler
MaxDate == 2       \* SpecSampler: commit dates are 0..MaxDate
MaxCount == 2      \* SpecSampler: commit counts of contributors are 0..MaxCount
MaxExperts == 2    \* most experts in one model reply

(***************************************************************************)
(* Generic helpers (JavaScript array primitives).                          *)
(***************************************************************************)
Min(a, b) == IF a <= b THEN a ELSE b
Max(a, b) == IF a >= b THEN a ELSE b

\* Array.prototype.slice(from, to) for 0 <= from, 0 <= to
Slice(s, from, to) == SubSeq(s, from + 1, Min(to, Len(s)))

Range(s) == {s[i] : i \in 1..Len(s)}

\* all sequences over S of length <= n
RECURSIVE SeqsUpTo(_, _)
SeqsUpTo(S, n) ==
    IF n = 0 THEN {<<>>}
    ELSE LET shorter == SeqsUpTo(S, n - 1)
         IN shorter \cup {Append(s, x) : s \in {t \in shorter : Len(t) = n - 1}, x \in S}

\* Array.prototype.sort with comparator (a, b) => b.key - a.key: a stable
\* sort in non-increasing order of the key (ECMAScript 2019 sorts are stable).
\* key names the numeric field of the records that the comparator reads.
\* An element's place is 1 + the number of elements that go before it.
SortDesc(s, key) ==
    LET n == Len(s)
        place == [i \in 1..n |->
                    1 + Cardinality({j \in 1..n :
                            \/ s[j][key] > s[i][key]
                            \/ s[j][key] = s[i][key] /\ j < i})]
    IN [r \in 1..n |-> s[CHOOSE i \in 1..n : place[i] = r]]

(***************************************************************************)
(* Data.  A file name is modelled by what the sampler reads of it: whether *)
(* it contains one of the high-priority substrings and whether it contains *)
(* one of the medium-priority substrings; id tells files apart.            *)
(***************************************************************************)
File(id, hasHigh, hasMedium) == [id |-> id, hasHigh |-> hasHigh, hasMedium |-> hasMedium]
\* textLength: the length of `${author.name}: ${message}`
Commit(sha, date, textLength) == [sha |-> sha, date |-> date, textLength |-> textLength]
Contributor(name, email, commits) == [name |-> name, email |-> email, commits |-> commits]

(***************************************************************************)
(* SIZE_LIMITS and the size tiers.                                         *)
(***************************************************************************)
Tiers == {"small", "medium", "large", "enterprise"}

SIZE_LIMITS ==
    [t \in Tiers |->
        CASE t = "small"      -> [files |-> 50,   contributors |-> 10, commits |-> 100]
          [] t = "medium"     -> [files |-> 200,  contributors |-> 20, commits |-> 200]
          [] t = "large"      -> [files |-> 500,  contributors |-> 30, commits |-> 300]
          [] t = "enterprise" -> [files |-> 1000, contributors |-> 50, commits |-> 500]]

\* (mutant: the labels of the two upper tiers are swapped)
RepositorySizeSwapped(nFiles, nContributors) ==
    IF nFiles > 1000 \/ nContributors > 50 THEN "large"
    ELSE IF nFiles > 500 \/ nContributors > 30 THEN "enterprise"
    ELSE IF nFiles > 200 \/ nContributors > 20 THEN "medium"
    ELSE "small"

\* the tier chosen in assessRepositorySize from the two counts it reads
RepositorySize(nFiles, nContributors) ==
    IF nFiles > 1000 \/ nContributors > 50 THEN "enterprise"
    ELSE IF nFiles > 500 \/ nContributors > 30 THEN "large"
    ELSE IF nFiles > 200 \/ nContributors > 20 THEN "medium"
    ELSE "small"

\* assessRepositorySize: the counts and the tier (languages and the activity
\* level are derived from file extensions and the clock and feed nothing here)
AssessRepositorySize(files, commits, contributors) ==
    [totalFiles        |-> Len(files),
     totalCommits      |-> Len(commits),
     totalContributors |-> Len(contributors),
     repositorySize    |-> RepositorySize(Len(files), Len(contributors))]

(***************************************************************************)
(* The samplers.                                                           *)
(***************************************************************************)
\* Math.floor(limit * 0.3) and Math.floor(limit * 0.7).  The IEEE-754 products
\* equal the exact ones for every limit the model uses (0..39 and the
\* SIZE_LIMITS values); the first limit where they differ is 90.
FloorTimes03(n) == (3 * n) \div 10
FloorTimes07(n) == (7 * n) \div 10

IsHighPriority(f) == f.hasHigh
IsMediumPriority(f) == ~f.hasHigh /\ f.hasMedium
IsLowPriority(f) == ~f.hasHigh /\ ~f.hasMedium

\* (mutant: the first files are taken whatever their priority)
SampleFilesInOrder(files, lim) == Slice(files, 0, lim)

SampleFiles(files, lim) ==
    IF Len(files) <= lim THEN files
    ELSE LET high == SelectSeq(files, IsHighPriority)
             medium == SelectSeq(files, IsMediumPriority)
             low == SelectSeq(files, IsLowPriority)
             highTake == Min(Len(high), FloorTimes03(lim))
             mediumTake == Min(Len(medium), FloorTimes03(lim))
             lowTake == lim - highTake - mediumTake
         IN Slice(high, 0, highTake) \o Slice(medium, 0, mediumTake)
                \o Slice(low, 0, lowTake)

\* the loop of sampleCommits that picks remaining[i * step]
RECURSIVE Distributed(_, _, _, _)
Distributed(remaining, step, distributedCount, i) ==
    IF i < distributedCount /\ i * step < Len(remaining)
    THEN <<remaining[i * step + 1]>> \o Distributed(remaining, step, distributedCount, i + 1)
    ELSE <<>>

\* commits.sort(...) sorts the argument in place: SortedCommits is both the
\* local `sorted` and the caller's array afterwards
\* (mutant: the sort is forgotten)
UnsortedCommits(commits) == commits

SortedCommits(commits) == SortDesc(commits, "date")

SampleCommits(commits, lim) ==
    IF Len(commits) <= lim THEN commits
    ELSE LET sorted == SortedCommits(commits)
             recentCount == FloorTimes07(lim)
             distributedCount == lim - recentCount
             remaining == Slice(sorted, recentCount, Len(sorted))
             \* Math.floor(remaining.length / 0) is Infinity: no iteration runs
             step == IF distributedCount = 0 THEN 1
                     ELSE Max(1, Len(remaining) \div distributedCount)
         IN Slice(sorted, 0, recentCount)
                \o (IF distributedCount = 0 THEN <<>>
                    ELSE Distributed(remaining, step, distributedCount, 0))

SortedContributors(contributors) == SortDesc(contributors, "commits")

\* (mutant: the early return is dropped, the list is always sorted and cut)
SampleContributorsSorting(contributors, lim) ==
    Slice(SortedContributors(contributors), 0, lim)

SampleContributors(contributors, lim) ==
    IF Len(contributors) <= lim THEN contributors
    ELSE Slice(SortedContributors(contributors), 0, lim)

\* gatherRepositoryData: the object it returns.  sampleCommits and
\* sampleContributors sort their argument in place, which only reorders the
\* locals allCommits and allContributors.
GatherRepositoryData(files, commits, contributors, stats) ==
    LET limits == SIZE_LIMITS[stats.repositorySize]
    IN [files           |-> SampleFiles(files, limits.files),
        commits         |-> SampleCommits(commits, limits.commits),
        contributors    |-> SampleContributors(contributors, limits.contributors),
        repositoryStats |-> stats,
        samplingApplied |-> [originalFiles        |-> Len(files),
                             originalCommits      |-> Len(commits),
                             originalContributors |-> Len(contributors)]]

(***************************************************************************)
(* Analysis results.  Expert and insight objects live in a heap and an     *)
(* ExpertiseAnalysis holds references to them, because mergeChunkResults   *)
(* updates Expert objects in place and deduplicates insights with a Set,   *)
(* which compares objects by reference.  experts and expertProfiles are    *)
(* the same array in all three constructors, so one field stands for both. *)
(* fileExpertise, stats and the two timestamps are read by no operation    *)
(* modelled here and are left out.                                         *)
(***************************************************************************)
EmptyHeap == [experts |-> <<>>, insights |-> <<>>]

\* the `null` an analysis function may return, in the shape of an analysis
NullAnalysis ==
    [isNull |-> TRUE, totalFiles |-> 0, totalExperts |-> 0, expertProfiles |-> <<>>,
     teamDynamics |-> "undefined", insights |-> <<>>]

\* references of k objects allocated after the first n
NewRefs(n, k) == [i \in 1..k |-> n + i]

Insight(title, text, n) == [title |-> title, description |-> [text |-> text, n |-> n]]

\* (mutant: the size of the sampled file list)
TotalFilesSampled(data) == Len(data.files)

\* `samplingApplied?.originalFiles || files.length`
TotalFiles(data) ==
    IF data.samplingApplied.originalFiles # 0
    THEN data.samplingApplied.originalFiles
    ELSE Len(data.files)

\* inferSpecializationsFromFiles: the languages of the three most frequent
\* extensions; the model's files all carry one extension
InferSpecializationsFromFiles(files) ==
    IF files = <<>> THEN <<"General Programming">> ELSE <<"TypeScript">>

\* (mutant: the most active contributor is named without looking at the list)
MostActiveInsightUnchecked(experts) ==
    Insight("Most Active Contributor", "Most active contributor: N",
            IF Len(experts) > 0 THEN experts[1].name[2] ELSE 0)

\* the third insight of createFallbackAnalysis
MostActiveInsight(experts) ==
    IF Len(experts) > 0
    THEN Insight("Most Active Contributor", "Most active contributor: N",
                 experts[1].name[2])
    ELSE Insight("No Contributor Data", "No contributor data available", 0)

\* createFallbackAnalysis: [analysis, heap]
CreateFallbackAnalysis(data, h) ==
    LET contributors == data.contributors
        experts == [i \in 1..Len(contributors) |->
            [name            |-> contributors[i].name,
             email           |-> IF contributors[i].email # "" THEN contributors[i].email
                                 ELSE "unknown@example.com",
             expertise       |-> Min(90, 30 + contributors[i].commits * 2),
             contributions   |-> contributors[i].commits,
             specializations |-> InferSpecializationsFromFiles(data.files),
             communicationStyle |-> "Analysis unavailable - local data only"]]
        insights == <<
            Insight("Repository Analysis", "Analyzed N files in the repository",
                    TotalFiles(data)),
            Insight("Team Contributors", "Found N contributors with commit history",
                    Len(experts)),
            MostActiveInsight(experts),
            Insight("Analysis Method",
                    "Large repository - used smart sampling for analysis", 0),
            Insight("Enhanced Insights",
                    "For enhanced AI insights, check GitHub Models API configuration", 0) >>
    IN [analysis |->
            [isNull         |-> FALSE,
             totalFiles     |-> TotalFiles(data),
             totalExperts   |-> Len(experts),
             expertProfiles |-> NewRefs(Len(h.experts), Len(experts)),
             teamDynamics   |-> "Data not available in fallback mode",
             insights       |-> NewRefs(Len(h.insights), Len(insights))],
        heap |-> [experts |-> h.experts \o experts,
                  insights |-> h.insights \o insights]]

(***************************************************************************)
(* The model's reply.  content.kind is "noJson" (extractJSONFromResponse   *)
(* finds no parsable object), "badShape" (JSON whose `experts` is not an   *)
(* array of objects, so that mapping it throws) or "ok".  A field of a raw *)
(* expert is <<type, value>>; a missing name or email is the empty string. *)
(***************************************************************************)
IsNumber(field) == field[1] = "number"
IsArray(field) == field[1] = "array"

\* the mapping of parsed.experts in parseAIResponse
ProcessExpert(raw, index) ==
    [name            |-> IF raw.name[1] # "" THEN raw.name ELSE <<"Expert", index>>,
     email           |-> IF raw.email # "" THEN raw.email ELSE "unknown@example.com",
     expertise       |-> IF IsNumber(raw.expertise) THEN raw.expertise[2] ELSE 0,
     contributions   |-> IF IsNumber(raw.contributions) THEN raw.contributions[2] ELSE 0,
     specializations |-> IF IsArray(raw.specializations) THEN raw.specializations[2]
                         ELSE <<>>,
     communicationStyle |-> "undefined"]

\* parseAIResponse: [analysis, heap]
ParseAIResponse(content, data, h) ==
    IF content.kind # "ok"
    THEN CreateFallbackAnalysis(data, h)
    ELSE LET processedExperts ==
                [i \in 1..Len(content.experts) |-> ProcessExpert(content.experts[i], i)]
             insights == [i \in 1..Len(content.insights) |->
                            Insight("Analysis Insight", content.insights[i], 0)]
         IN [analysis |->
                [isNull         |-> FALSE,
                 totalFiles     |-> TotalFiles(data),
                 totalExperts   |-> Len(processedExperts),
                 expertProfiles |-> NewRefs(Len(h.experts), Len(processedExperts)),
                 teamDynamics   |-> content.teamDynamics,
                 insights       |-> NewRefs(Len(h.insights), Len(insights))],
             heap |-> [experts |-> h.experts \o processedExperts,
                       insights |-> h.insights \o insights]]

(***************************************************************************)
(* mergeChunkResults.                                                      *)
(***************************************************************************)
\* [...new Set(s)]: the first occurrence of every element, in order
RECURSIVE Dedup(_)
Dedup(s) ==
    IF s = <<>> THEN <<>>
    ELSE LET front == Dedup(SubSeq(s, 1, Len(s) - 1))
             last == s[Len(s)]
         IN IF last \in Range(front) THEN front ELSE Append(front, last)

\* chunkResults.flatMap(result => result.<field>)
RECURSIVE FlatMap(_, _)
FlatMap(results, field) ==
    IF results = <<>> THEN <<>>
    ELSE Head(results)[field] \o FlatMap(Tail(results), field)

\* (mutant: a repeated email replaces the contribution count)
MergeExpertOverwrite(existing, expert) ==
    [existing EXCEPT
        !.contributions = expert.contributions,
        !.expertise = Max(@, expert.expertise),
        !.specializations = Dedup(@ \o expert.specializations)]

\* the update of `existing` when the email is already in expertMap
MergeExpert(existing, expert) ==
    [existing EXCEPT
        !.contributions = @ + expert.contributions,
        !.expertise = Max(@, expert.expertise),
        !.specializations = Dedup(@ \o expert.specializations)]

\* allExperts.forEach(...): expertMap is the sequence of the references it
\* holds, in insertion order; returns [map, experts] with experts the
\* heap's Expert objects after the updates
RECURSIVE MergeExperts(_, _, _, _)
MergeExperts(allExperts, i, map, experts) ==
    IF i > Len(allExperts) THEN [map |-> map, experts |-> experts]
    ELSE LET ref == allExperts[i]
             expert == experts[ref]
             same == {j \in 1..Len(map) : experts[map[j]].email = expert.email}
         IN IF same # {}
            THEN LET existing == map[CHOOSE j \in same : TRUE]
                 IN MergeExperts(allExperts, i + 1, map,
                        [experts EXCEPT ![existing] = MergeExpert(@, expert)])
            ELSE MergeExperts(allExperts, i + 1, Append(map, ref), experts)

\* Array.from(expertMap.values()).sort((a, b) => b.contributions - a.contributions)
SortByContributions(refs, experts) ==
    LET keyed == [i \in 1..Len(refs) |->
                    [ref |-> refs[i], contributions |-> experts[refs[i]].contributions]]
        sorted == SortDesc(keyed, "contributions")
    IN [i \in 1..Len(refs) |-> sorted[i].ref]

\* (mutant: the notice of the processing method is left out)
ChunkNoticesCountOnly(n) ==
    << Insight("Data Processing",
               "Processed N data chunks to handle repository size", n) >>

\* the two insights mergeChunkResults appends
ChunkNotices(n) ==
    << Insight("Processing Method",
               "Analysis completed using chunked processing for large repository", 0),
       Insight("Data Processing",
               "Processed N data chunks to handle repository size", n) >>

\* mergeChunkResults: [analysis, heap]; the heap holds the chunk results'
\* Expert objects as the merge leaves them
MergeChunkResults(results, data, h) ==
    LET allExperts == FlatMap(results, "expertProfiles")
        allInsights == FlatMap(results, "insights")
        folded == MergeExperts(allExperts, 1, <<>>, h.experts)
        mergedExperts == SortByContributions(folded.map, folded.experts)
        notices == ChunkNotices(Len(results))
    IN [analysis |->
            [isNull         |-> FALSE,
             totalFiles     |-> TotalFiles(data),
             totalExperts   |-> Len(mergedExperts),
             expertProfiles |-> mergedExperts,
             teamDynamics   |-> results[1].teamDynamics,
             insights       |-> Dedup(allInsights)
                                    \o NewRefs(Len(h.insights), Len(notices))],
        heap |-> [experts |-> folded.experts,
                  insights |-> h.insights \o notices]]

\* the Expert objects of an analysis
Profiles(analysis, h) ==
    [i \in 1..Len(analysis.expertProfiles) |-> h.experts[analysis.expertProfiles[i]]]

\* the insight objects of an analysis
Insights(analysis, h) ==
    [i \in 1..Len(analysis.insights) |-> h.insights[analysis.insights[i]]]

(***************************************************************************)
(* SpecSampler: one sampler applied to one list.                           *)
(***************************************************************************)
NoMerge == /\ heap = EmptyHeap
           /\ contents = <<>>
           /\ chunkResults = <<>>
           /\ merged = NullAnalysis

NoRun == /\ workspace = TRUE
         /\ secret = "" /\ cachedToken = ""
         /\ validationCache = [t \in Tokens |-> "none"]
         /\ stack = <<>>
         /\ callData = NoValue
         /\ smartResult = NullAnalysis
         /\ returnValue = NullAnalysis
         /\ errorsReported = 0
         /\ firstReply = "none"
         /\ replyKinds = {}
         /\ outerYield = -1
         /\ lastOutcome = "none"

NoGit == shortlog = <<>> /\ gitContributors = <<>>

NoError == raised = NoValue /\ shown = <<>>

NoCommand == commandRuns = <<>> /\ lastAnalysis = 0

NoProcess ==
    /\ processes = <<>>
    /\ activeProcesses = {}
    /\ cancellation = FALSE
    /\ taskState = "notStarted"

NoText == jsonText = <<>> /\ fenced = <<>> /\ extracted = NoValue

NoStore == savedAnalysis = NoValue /\ workspaceState = NoValue /\ loaded = NoValue

NoCalls == tokenCalls = <<>> /\ infoMessages = <<>>

NoLater == NoGit /\ NoError /\ NoCommand /\ NoProcess /\ NoText /\ NoStore /\ NoCalls

Idle == /\ NoLater
        /\ repoStats = NoValue
        /\ repositoryData = NoValue
        /\ NoMerge
        /\ NoRun

\* the four kinds of file name: <<hasHigh, hasMedium>>
FileKinds == {<<TRUE, FALSE>>, <<TRUE, TRUE>>, <<FALSE, TRUE>>, <<FALSE, FALSE>>}

FilesOfKinds(kinds) == [i \in 1..Len(kinds) |-> File(i, kinds[i][1], kinds[i][2])]
CommitsOfDates(dates) == [i \in 1..Len(dates) |-> Commit(i, dates[i], 50)]
ContributorsOfCounts(counts) ==
    [i \in 1..Len(counts) |-> Contributor(i, "a@x", counts[i])]

InitSampler ==
    /\ limit \in 0..MaxLimit
    /\ sampled = NoValue
    /\ Idle
    /\ \/ /\ pc = "sampleFiles"
          /\ allFiles \in {FilesOfKinds(k) : k \in SeqsUpTo(FileKinds, MaxLen)}
          /\ allCommits = <<>>
          /\ allContributors = <<>>
       \/ /\ pc = "sampleCommits"
          /\ allFiles = <<>>
          /\ allCommits \in {CommitsOfDates(d) : d \in SeqsUpTo(0..MaxDate, MaxLen)}
          /\ allContributors = <<>>
       \/ /\ pc = "sampleContributors"
          /\ allFiles = <<>>
          /\ allCommits = <<>>
          /\ allContributors \in
                {ContributorsOfCounts(c) : c \in SeqsUpTo(0..MaxCount, MaxLen)}

DoSampleFiles ==
    /\ pc = "sampleFiles"
    /\ sampled' = [op |-> "sampleFiles", input |-> allFiles,
                    out |-> SampleFiles(allFiles, limit)]
    /\ pc' = "sampled"
    /\ UNCHANGED <<laterVars, dataVars, limit, gatherVars, heap, mergeVars, tokenVars, runVars, historyVars>>

DoSampleCommits ==
    /\ pc = "sampleCommits"
    /\ sampled' = [op |-> "sampleCommits", input |-> allCommits,
                    out |-> SampleCommits(allCommits, limit)]
    /\ allCommits' = IF Len(allCommits) <= limit THEN allCommits
                      ELSE SortedCommits(allCommits)
    /\ pc' = "sampled"
    /\ UNCHANGED <<laterVars, allFiles, allContributors, limit, gatherVars, heap, mergeVars, tokenVars,
                   runVars, historyVars>>

DoSampleContributors ==
    /\ pc = "sampleContributors"
    /\ sampled' = [op |-> "sampleContributors", input |-> allContributors,
                    out |-> SampleContributors(allContributors, limit)]
    /\ allContributors' = IF Len(allContributors) <= limit THEN allContributors
                           ELSE SortedContributors(allContributors)
    /\ pc' = "sampled"
    /\ UNCHANGED <<laterVars, allFiles, allCommits, limit, gatherVars, heap, mergeVars, tokenVars,
                   runVars, historyVars>>

\* the sampler applied a second time, to the list it returned
Sampler(op, list, lim) ==
    IF op = "sampleFiles" THEN SampleFiles(list, lim)
    ELSE IF op = "sampleCommits" THEN SampleCommits(list, lim)
    ELSE SampleContributors(list, lim)

Resample ==
    /\ pc = "sampled"
    /\ sampled' = [op |-> sampled.op, input |-> sampled.input, out |-> sampled.out,
                    again |-> Sampler(sampled.op, sampled.out, limit)]
    /\ pc' = "resampled"
    /\ UNCHANGED <<laterVars, dataVars, limit, gatherVars, heap, mergeVars, tokenVars,
                   runVars, historyVars>>

NextSampler == DoSampleFiles \/ DoSampleCommits \/ DoSampleContributors \/ Resample

SpecSampler == InitSampler /\ [][NextSampler]_vars

(***************************************************************************)
(* SpecGather: assessRepositorySize, then gatherRepositoryData, on         *)
(* repositories large enough for every tier of SIZE_LIMITS.  The file list *)
(* is given by the sizes of its three priority buckets and their order,    *)
(* the contributor list (sorted by commit count, as                        *)
(* getLocalGitContributors returns it) and the commit list (newest first,  *)
(* as git log prints it) by their lengths.                                 *)
(***************************************************************************)
BucketCounts == {0, 30, 400, 501}
ContributorCounts == {0, 11, 21, 31, 51, 60}
CommitCounts == {0, 101}

FilesOfBuckets(first, second, third, kinds) ==
    [i \in 1..(first + second + third) |->
        LET k == IF i <= first THEN kinds[1]
                 ELSE IF i <= first + second THEN kinds[2] ELSE kinds[3]
        IN File(i, k[1], k[2])]

BucketOrders == { <<(<<TRUE, FALSE>>), (<<FALSE, TRUE>>), (<<FALSE, FALSE>>)>>,
                  <<(<<FALSE, FALSE>>), (<<FALSE, TRUE>>), (<<TRUE, TRUE>>)>> }

ContributorsOfLength(n) == [i \in 1..n |-> Contributor(i, "a@x", n - i + 1)]
CommitsOfLength(n) == [i \in 1..n |-> Commit(i, n - i, 50)]

InitGather ==
    /\ pc = "assess"
    /\ \E a, b, c \in BucketCounts, kinds \in BucketOrders :
            allFiles = FilesOfBuckets(a, b, c, kinds)
    /\ \E n \in ContributorCounts : allContributors = ContributorsOfLength(n)
    /\ \E n \in CommitCounts : allCommits = CommitsOfLength(n)
    /\ limit = 0
    /\ sampled = NoValue
    /\ Idle

Assess ==
    /\ pc = "assess"
    /\ repoStats' = AssessRepositorySize(allFiles, allCommits, allContributors)
    /\ pc' = "gather"
    /\ UNCHANGED <<laterVars, dataVars, samplerVars, repositoryData, heap, mergeVars, tokenVars, runVars,
                   historyVars>>

Gather ==
    /\ pc = "gather"
    /\ repositoryData' =
            GatherRepositoryData(allFiles, allCommits, allContributors, repoStats)
    /\ LET limits == SIZE_LIMITS[repoStats.repositorySize]
       IN /\ allCommits' = IF Len(allCommits) <= limits.commits THEN allCommits
                            ELSE SortedCommits(allCommits)
          /\ allContributors' =
                IF Len(allContributors) <= limits.contributors THEN allContributors
                ELSE SortedContributors(allContributors)
    /\ pc' = "gathered"
    /\ UNCHANGED <<laterVars, allFiles, samplerVars, repoStats, heap, mergeVars, tokenVars, runVars,
                   historyVars>>

NextGather == Assess \/ Gather

SpecGather == InitGather /\ [][NextGather]_vars

(***************************************************************************)
(* SpecMerge: mergeChunkResults applied to three chunk results A, B, C,    *)
(* each parsed from a model reply: in one pass over [A, B, C], or to       *)
(* [A, B] and then to [that result, C].                                    *)
(***************************************************************************)
RawExpert(name, email, contributions, expertise, specializations) ==
    [name |-> name, email |-> email, contributions |-> contributions,
     expertise |-> expertise, specializations |-> specializations]

\* the experts a model reply is made of; the last has no usable field
RawExperts ==
    { RawExpert(<<"m", 1>>, "a@x", <<"number", 1>>, <<"number", 40>>,
                <<"array", <<"TypeScript">> >>),
      RawExpert(<<"m", 2>>, "a@x", <<"number", 2>>, <<"number", 80>>,
                <<"array", <<"React", "TypeScript">> >>),
      RawExpert(<<"m", 3>>, "b@x", <<"number", 2>>, <<"number", 40>>,
                <<"array", <<"React">> >>),
      RawExpert(<<"", 0>>, "", <<"other", 0>>, <<"other", 0>>, <<"other", <<>> >>) }

OkContent(experts, insights) ==
    [kind |-> "ok", experts |-> experts, insights |-> insights,
     teamDynamics |-> "fromModel"]

\* the data of the repository the chunks come from
MergeData ==
    [files |-> <<>>, commits |-> <<>>, contributors |-> <<>>,
     samplingApplied |-> [originalFiles |-> 0, originalCommits |-> 0,
                          originalContributors |-> 0]]

\* the chunk results parsed from a sequence of replies: [results, heap]
RECURSIVE ParseAll(_, _, _)
ParseAll(replies, results, h) ==
    IF replies = <<>> THEN [results |-> results, heap |-> h]
    ELSE LET one == ParseAIResponse(Head(replies), MergeData, h)
         IN ParseAll(Tail(replies), Append(results, one.analysis), one.heap)

InitMerge ==
    /\ pc = "merge"
    /\ \E a, b \in SeqsUpTo(RawExperts, MaxExperts), c \in SeqsUpTo(RawExperts, 1) :
            contents = << OkContent(a, <<"insight 1">>),
                          OkContent(b, <<"insight 1", "insight 2">>),
                          OkContent(c, <<>>) >>
    /\ chunkResults = ParseAll(contents, <<>>, EmptyHeap).results
    /\ heap = ParseAll(contents, <<>>, EmptyHeap).heap
    /\ merged = NullAnalysis
    /\ allFiles = <<>> /\ allCommits = <<>> /\ allContributors = <<>>
    /\ limit = 0 /\ sampled = NoValue
    /\ repoStats = NoValue /\ repositoryData = NoValue
    /\ NoRun
    /\ NoLater

MergeOnePass ==
    /\ pc = "merge"
    /\ LET m == MergeChunkResults(chunkResults, MergeData, heap)
       IN merged' = m.analysis /\ heap' = m.heap
    /\ pc' = "onePass"
    /\ UNCHANGED <<laterVars, dataVars, samplerVars, gatherVars, contents, chunkResults, tokenVars,
                   runVars, historyVars>>

MergeFirstTwo ==
    /\ pc = "merge"
    /\ LET m == MergeChunkResults(SubSeq(chunkResults, 1, 2), MergeData, heap)
       IN merged' = m.analysis /\ heap' = m.heap
    /\ pc' = "firstTwo"
    /\ UNCHANGED <<laterVars, dataVars, samplerVars, gatherVars, contents, chunkResults, tokenVars,
                   runVars, historyVars>>

MergeWithThird ==
    /\ pc = "firstTwo"
    /\ LET m == MergeChunkResults(<<merged, chunkResults[3]>>, MergeData, heap)
       IN merged' = m.analysis /\ heap' = m.heap
    /\ pc' = "twoStep"
    /\ UNCHANGED <<laterVars, dataVars, samplerVars, gatherVars, contents, chunkResults, tokenVars,
                   runVars, historyVars>>

NextMerge == MergeOnePass \/ MergeFirstTwo \/ MergeWithThird

SpecMerge == InitMerge /\ [][NextMerge]_vars

(***************************************************************************)
(* Spec: one run of analyzeRepository.  A step is what the run does up to  *)
(* its next wait for the outside: the token checks (secret store, GitHub   *)
(* validation, input box), the completion API and the one-second timer.    *)
(* performStandardAnalysis and performChunkedAnalysis call each other;     *)
(* `stack` holds the performChunkedAnalysis calls in progress.             *)
(***************************************************************************)
ChunkSize == 10
ChunkCommits == 20
ChunkFiles == 15
PromptFiles == 20
PromptStructure == 2000
LargePrompt == 100000

MaxDepth == 2             \* performChunkedAnalysis calls kept apart on the stack
ContributorText == 40     \* length of `${c.name} (${c.email}) - ${c.commits} commits`
FileText == 20            \* length of a file path

\* chunkArray
ChunkArray(array, chunkSize) ==
    [k \in 1..((Len(array) + chunkSize - 1) \div chunkSize) |->
        Slice(array, (k - 1) * chunkSize, k * chunkSize)]

\* the chunkData of one iteration of performChunkedAnalysis
ChunkData(data, chunk) ==
    [data EXCEPT !.contributors = chunk,
                 !.commits = Slice(@, 0, ChunkCommits),
                 !.files = Slice(@, 0, ChunkFiles)]

RECURSIVE TextLength(_)
TextLength(commits) ==
    IF commits = <<>> THEN 0 ELSE Head(commits).textLength + TextLength(Tail(commits))

\* the length of n texts of the given total length joined by a separator
Joined(n, total, separator) == IF n = 0 THEN 0 ELSE total + separator * (n - 1)

\* estimatePromptSize
EstimatePromptSize(data) ==
    LET contributorsText ==
            Joined(Len(data.contributors), ContributorText * Len(data.contributors), 1)
        commitsText == Joined(Len(data.commits), TextLength(data.commits), 1)
        listed == Min(Len(data.files), PromptFiles)
        filesText == Joined(listed, FileText * listed, 2)
    IN contributorsText + commitsText + filesText + PromptStructure

\* what a call hands to its caller: a value (an analysis or null) or an exception
Returned(a) == [kind |-> "value", analysis |-> a]
Thrown == [kind |-> "throw", analysis |-> NullAnalysis]

\* the locals of performChunkedAnalysis when its loop starts
Frame(data) ==
    [data |-> data, contributorChunks |-> ChunkArray(data.contributors, ChunkSize),
     i |-> 0, chunkResults |-> <<>>]

\* the catch block of performSmartAIAnalysis: [analysis, heap]
SmartCatchNull(data, h) == [analysis |-> NullAnalysis, heap |-> h]

SmartCatch(data, h) == CreateFallbackAnalysis(data, h)

\* performSmartAIAnalysis returns `result`, and analyzeRepository returns it,
\* or reports ANALYSIS_FAILED and returns null when it is null
Completed(result, h, yield) ==
    [pc |-> "done", stack |-> <<>>, heap |-> h, callData |-> NoValue,
     smartResult |-> result, returnValue |-> result,
     errors |-> IF result.isNull THEN 1 ELSE 0, outerYield |-> yield]

\* (mutant: the loop waits after every group, the last one too)
DelayAfterEveryGroup(i, chunks) == TRUE

\* `if (i < contributorChunks.length - 1)`: the loop waits before the next group
DelayFollows(i, chunks) == i < Len(chunks) - 1

\* (mutant: whatever the call handed back is pushed)
ChunkResultsPushAll(results, ret) == Append(results, ret.analysis)

\* the try block of the loop: `if (chunkResult) chunkResults.push(chunkResult)`,
\* and the catch that only logs
ChunkResultsAfter(results, ret) ==
    IF ret.kind = "value" /\ ~ret.analysis.isNull
    THEN Append(results, ret.analysis)
    ELSE results

\* A performStandardAnalysis call ends with `ret`.  With no chunked analysis
\* in progress its caller is performSmartAIAnalysis.  Otherwise it is the
\* loop of the innermost performChunkedAnalysis, which keeps a non-null
\* result, skips a null or an exception, and then either waits for the timer
\* or, after the last chunk, returns the merge or the fallback to the
\* performStandardAnalysis call that started it, which returns it in turn.
RECURSIVE Unwind(_, _, _, _)
Unwind(ret, stk, h, yield) ==
    IF stk = <<>>
    THEN IF ret.kind = "throw"
         THEN LET fb == SmartCatch(repositoryData, h)
              IN Completed(fb.analysis, fb.heap, yield)
         ELSE Completed(ret.analysis, h, yield)
    ELSE LET depth == Len(stk)
             top == stk[depth]
             results == ChunkResultsAfter(top.chunkResults, ret)
         IN IF DelayFollows(top.i, top.contributorChunks)
            THEN [pc |-> "delay",
                  stack |-> [stk EXCEPT ![depth].chunkResults = results],
                  heap |-> h, callData |-> NoValue,
                  smartResult |-> NullAnalysis, returnValue |-> NullAnalysis,
                  errors |-> 0, outerYield |-> yield]
            ELSE LET out == IF results = <<>>
                            THEN CreateFallbackAnalysis(top.data, h)
                            ELSE MergeChunkResults(results, top.data, h)
                 IN Unwind(Returned(out.analysis), SubSeq(stk, 1, depth - 1), out.heap,
                           IF depth = 1 THEN Len(results) ELSE yield)

\* A performChunkedAnalysis call whose locals would equal those of the
\* innermost call in progress: from the second nested call on, the chunk is
\* the only one and chunkData equals the data it was cut from, so every
\* deeper call starts with the same locals.  Such calls are kept as one
\* stack entry once MaxDepth entries are in use.
Folded(stk, frame) == Len(stk) = MaxDepth /\ stk[Len(stk)] = frame

CanEnterChunked(data, stk) == Len(stk) < MaxDepth \/ Folded(stk, Frame(data))

\* performChunkedAnalysis(data) up to its first wait
EnterChunked(data, stk, h, yield) ==
    LET frame == Frame(data)
    IN IF frame.contributorChunks = <<>>
       THEN LET fb == CreateFallbackAnalysis(data, h)
            IN Unwind(Returned(fb.analysis), stk, fb.heap,
                      IF stk = <<>> THEN 0 ELSE yield)
       ELSE [pc |-> "ensureToken",
             stack |-> IF Folded(stk, frame) THEN stk ELSE Append(stk, frame),
             heap |-> h,
             callData |-> ChunkData(data, frame.contributorChunks[1]),
             smartResult |-> NullAnalysis, returnValue |-> NullAnalysis,
             errors |-> 0, outerYield |-> yield]

\* the run moves to the configuration `next`
Continue(next) ==
    /\ pc' = next.pc
    /\ stack' = next.stack
    /\ heap' = next.heap
    /\ callData' = next.callData
    /\ smartResult' = next.smartResult
    /\ returnValue' = next.returnValue
    /\ errorsReported' = errorsReported + next.errors
    /\ outerYield' = next.outerYield

(***************************************************************************)
(* TokenManager.  A validation asks GitHub and may answer either way; an   *)
(* entry of the validation cache is used while it is younger than five     *)
(* minutes, and time is not modelled, so an entry may be found expired.    *)
(***************************************************************************)
\* getToken: the token it returns, "" for undefined
GetToken == IF cachedToken # "" THEN cachedToken ELSE secret

\* isTokenValid: the answers it may give and the cache it leaves
IsTokenValid(token) ==
    (IF validationCache[token] # "none"
     THEN {[isValid |-> validationCache[token] = "valid", cache |-> validationCache]}
     ELSE {})
    \cup {[isValid |-> v,
           cache |-> [validationCache EXCEPT ![token] = IF v THEN "valid" ELSE "invalid"]] :
          v \in BOOLEAN}

\* promptForToken: the user dismisses the input box, or types a token that
\* setToken validates and stores, or rejects
PromptForToken(token, cache) ==
    {[token |-> "", secret |-> secret, cachedToken |-> token, cache |-> cache]}
    \cup {[token |-> IF v THEN "typed token" ELSE "",
           secret |-> IF v THEN "typed token" ELSE secret,
           cachedToken |-> IF v THEN "typed token" ELSE token,
           cache |-> IF v THEN [cache EXCEPT !["typed token"] = "valid"] ELSE cache] :
          v \in BOOLEAN}

\* ensureToken: the token it may return, "" for undefined, and the state it leaves
EnsureTokenOutcomes ==
    LET token == GetToken
    IN IF token = ""
       THEN PromptForToken(token, validationCache)
       ELSE UNION {IF check.isValid
                   THEN {[token |-> token, secret |-> secret, cachedToken |-> token,
                          cache |-> check.cache]}
                   ELSE PromptForToken(token, check.cache) :
                   check \in IsTokenValid(token)}

(***************************************************************************)
(* The repositories of Spec.                                               *)
(***************************************************************************)
RunFileCounts == {0, 51, 201}
RunContributorCounts == {0, 3, 21}
CommitTextLengths == {50, 5000}
RunCommits == 25

RunFiles(n) == [i \in 1..n |-> File(i, FALSE, FALSE)]

\* n contributors by falling commit count; with `shared`, the same address
\* is used under several names
RunContributors(n, shared) ==
    [i \in 1..n |->
        Contributor(<<"Contributor", i>>,
                    IF shared THEN ToString(i % 2) \o "@x" ELSE ToString(i) \o "@x",
                    10 * (n - i + 1))]

RunCommitList(n, textLength) == [i \in 1..n |-> Commit(i, n - i, textLength)]

\* the answers of the completion API
RunExperts ==
    { RawExpert(<<"m", 1>>, "1@x", <<"number", 1>>, <<"number", 40>>,
                <<"array", <<"TypeScript">> >>),
      RawExpert(<<"m", 2>>, "2@x", <<"number", 2>>, <<"number", 150>>,
                <<"array", <<"React">> >>),
      RawExpert(<<"", 0>>, "", <<"other", 0>>, <<"other", 0>>, <<"other", <<>> >>) }

Replies ==
    {[kind |-> "content", content |-> OkContent(e, <<"insight 1">>)] :
        e \in SeqsUpTo(RunExperts, MaxExperts)}
    \cup {[kind |-> "content", content |-> [OkContent(<<>>, <<>>) EXCEPT !.kind = k]] :
            k \in {"noJson", "badShape"}}
    \cup {[kind |-> k, content |-> OkContent(<<>>, <<>>)] :
            k \in {"413", "network error", "http error"}}

Init ==
    /\ pc = "start"
    /\ workspace \in BOOLEAN
    /\ \E n \in RunFileCounts : allFiles = RunFiles(n)
    /\ \E n \in RunContributorCounts, shared \in BOOLEAN, textLength \in CommitTextLengths :
            /\ allContributors = RunContributors(n, shared)
            /\ allCommits = RunCommitList(IF n = 0 THEN 0 ELSE RunCommits, textLength)
    /\ secret \in {"", "stored token"}
    /\ cachedToken = ""
    /\ \E c \in {"none", "valid", "invalid"} :
            /\ secret = "" => c = "none"
            /\ validationCache = [t \in Tokens |-> IF t = "stored token" THEN c ELSE "none"]
    /\ limit = 0 /\ sampled = NoValue
    /\ repoStats = NoValue /\ repositoryData = NoValue
    /\ NoMerge
    /\ stack = <<>> /\ callData = NoValue
    /\ smartResult = NullAnalysis /\ returnValue = NullAnalysis
    /\ errorsReported = 0
    /\ firstReply = "none" /\ replyKinds = {} /\ outerYield = -1
    /\ lastOutcome = "none"
    /\ NoLater

\* analyzeRepository, steps 1 and 2: the workspace folder and the token.  An
\* exception is reported by withErrorHandling, which returns null.  getToken
\* reads the secret store when no token is cached; when the read fails it
\* reports the failure itself and returns undefined.
Start ==
    /\ pc = "start"
    /\ \E storeFails \in BOOLEAN :
        IF ~workspace
        THEN /\ ~storeFails
             /\ errorsReported' = errorsReported + 1
             /\ pc' = "rejected"
             /\ UNCHANGED cachedToken
        ELSE IF storeFails
        THEN /\ cachedToken = ""
             /\ errorsReported' = errorsReported + 2
             /\ pc' = "rejected"
             /\ UNCHANGED cachedToken
        ELSE IF GetToken = ""
        THEN /\ errorsReported' = errorsReported + 1
             /\ pc' = "rejected"
             /\ UNCHANGED cachedToken
        ELSE /\ cachedToken' = GetToken
             /\ pc' = "assess"
             /\ UNCHANGED errorsReported
    /\ UNCHANGED <<laterVars, dataVars, samplerVars, gatherVars, heap, mergeVars, secret,
                   validationCache, workspace, stack, callData, smartResult, returnValue,
                   historyVars>>

\* assessRepositorySize when getWorkspaceFiles throws: the catch block
\* returns the statistics of an empty small repository
AssessFails ==
    /\ pc = "assess"
    /\ repoStats' = [totalFiles |-> 0, totalCommits |-> 0, totalContributors |-> 0,
                     repositorySize |-> "small"]
    /\ pc' = "gather"
    /\ UNCHANGED <<laterVars, dataVars, samplerVars, repositoryData, heap, mergeVars,
                   tokenVars, runVars, historyVars>>

\* gatherRepositoryData when getWorkspaceFiles throws: it rethrows, and
\* withErrorHandling reports the exception and returns null
GatherFails ==
    /\ pc = "gather"
    /\ errorsReported' = errorsReported + 1
    /\ pc' = "rejected"
    /\ UNCHANGED <<laterVars, dataVars, samplerVars, gatherVars, heap, mergeVars, tokenVars,
                   workspace, stack, callData, smartResult, returnValue, historyVars>>

\* performSmartAIAnalysis up to its first wait
PerformSmartAIAnalysis ==
    /\ pc = "gathered"
    /\ IF EstimatePromptSize(repositoryData) > LargePrompt
       THEN Continue(EnterChunked(repositoryData, stack, heap, outerYield))
       ELSE Continue([pc |-> "ensureToken", stack |-> stack, heap |-> heap,
                      callData |-> repositoryData, smartResult |-> NullAnalysis,
                      returnValue |-> NullAnalysis, errors |-> 0,
                      outerYield |-> outerYield])
    /\ UNCHANGED <<laterVars, dataVars, samplerVars, gatherVars, mergeVars, tokenVars, workspace,
                   firstReply, replyKinds, lastOutcome>>

\* performStandardAnalysis: ensureToken, then either the request is sent or
\* the call returns null
EnsureToken ==
    /\ pc = "ensureToken"
    /\ \E o \in EnsureTokenOutcomes :
            /\ secret' = o.secret
            /\ cachedToken' = o.cachedToken
            /\ validationCache' = o.cache
            /\ IF o.token # ""
               THEN /\ pc' = "call"
                    /\ UNCHANGED <<heap, stack, callData, smartResult, returnValue,
                                   errorsReported, outerYield>>
               ELSE Continue(Unwind(Returned(NullAnalysis), stack, heap, outerYield))
            /\ lastOutcome' = IF o.token # "" THEN "pending" ELSE "no token"
    /\ UNCHANGED <<laterVars, dataVars, samplerVars, gatherVars, mergeVars, workspace, firstReply,
                   replyKinds>>

\* history: what a reply was, a reply with content by what its content holds
ReplyKind(reply) ==
    IF reply.kind = "content" THEN reply.content.kind ELSE reply.kind

\* performStandardAnalysis: the completion API answers
ApiReply ==
    /\ pc = "call"
    /\ \E reply \in Replies :
            /\ reply.kind = "413" => CanEnterChunked(callData, stack)
            /\ firstReply' = IF firstReply = "none" THEN reply.kind ELSE firstReply
            /\ replyKinds' = replyKinds \cup {ReplyKind(reply)}
            /\ lastOutcome' = ReplyKind(reply)
            /\ Continue(
                 CASE reply.kind = "content" ->
                        LET parsed == ParseAIResponse(reply.content, callData, heap)
                        IN Unwind(Returned(parsed.analysis), stack, parsed.heap, outerYield)
                   [] reply.kind = "413" ->
                        EnterChunked(callData, stack, heap, outerYield)
                   [] OTHER -> Unwind(Thrown, stack, heap, outerYield))
    /\ UNCHANGED <<laterVars, dataVars, samplerVars, gatherVars, mergeVars, tokenVars, workspace>>

\* performChunkedAnalysis: the timer between two chunks fires
NextChunk ==
    /\ pc = "delay"
    /\ LET depth == Len(stack)
           top == stack[depth]
       IN /\ stack' = [stack EXCEPT ![depth].i = top.i + 1]
          /\ callData' = ChunkData(top.data, top.contributorChunks[top.i + 2])
    /\ pc' = "ensureToken"
    /\ UNCHANGED <<laterVars, dataVars, samplerVars, gatherVars, heap, mergeVars, tokenVars, workspace,
                   smartResult, returnValue, errorsReported, historyVars>>

Next ==
    \/ Start
    \/ Assess
    \/ AssessFails
    \/ Gather
    \/ GatherFails
    \/ PerformSmartAIAnalysis
    \/ EnsureToken
    \/ ApiReply
    \/ NextChunk

Spec == Init /\ [][Next]_vars

\* every wait of the run ends: the secret store, GitHub, the user, the
\* completion API and the timer all answer
FairSpec == Spec /\ WF_vars(Next)

(***************************************************************************)
(* SpecContributors: GitService.getContributors over the output of         *)
(* `git shortlog -sne --all`.  A line is blank or `<count>\t<name> <email>`*)
(* with a name and an address that may be empty; the first and last commit *)
(* dates the function then fetches for the first twenty entries change no  *)
(* field modelled here.                                                    *)
(***************************************************************************)
MaxLines == 3      \* SpecContributors: most lines of shortlog output

BlankLine == [blank |-> TRUE, commits |-> 0, name |-> "", email |-> ""]

ShortlogLine(commits, name, email) ==
    [blank |-> FALSE, commits |-> commits, name |-> name, email |-> email]

ShortlogLines ==
    {BlankLine} \cup {ShortlogLine(c, n, e) :
                        c \in 1..MaxCount, n \in {"A", "B"}, e \in {"", "a@x", "b@x"}}

\* line.trim() is not empty
NotBlank(line) == ~line.blank

\* /^\s*(\d+)\s+(.+?)\s+<(.+?)>\s*$/ matches: both groups need a character
MatchesShortlog(line) == ~line.blank /\ line.name # "" /\ line.email # ""

\* the object built from a matching line
GitContributor(line) ==
    [name |-> line.name, email |-> line.email, commits |-> line.commits]

\* (mutant: the list is returned in the order of the output)
UnsortedGitContributors(contributors) == contributors

\* .sort((a, b) => b.commits - a.commits)
SortedGitContributors(contributors) == SortDesc(contributors, "commits")

\* split, filter, map, filter, sort
ParseShortlog(lines) ==
    LET matching == SelectSeq(SelectSeq(lines, NotBlank), MatchesShortlog)
    IN SortedGitContributors([i \in 1..Len(matching) |-> GitContributor(matching[i])])

InitContributors ==
    /\ pc = "getContributors"
    /\ shortlog \in SeqsUpTo(ShortlogLines, MaxLines)
    \* shortlog prints one line for each name and address
    /\ \A i, j \in 1..Len(shortlog) :
            (~shortlog[i].blank /\ i # j)
                => <<shortlog[i].name, shortlog[i].email>>
                        # <<shortlog[j].name, shortlog[j].email>>
    /\ gitContributors = <<>>
    /\ NoError /\ NoCommand /\ NoProcess /\ NoText /\ NoStore /\ NoCalls
    /\ allFiles = <<>> /\ allCommits = <<>> /\ allContributors = <<>>
    /\ limit = 0 /\ sampled = NoValue
    /\ repoStats = NoValue /\ repositoryData = NoValue
    /\ NoMerge
    /\ NoRun

GetContributors ==
    /\ pc = "getContributors"
    /\ gitContributors' = ParseShortlog(shortlog)
    /\ pc' = "returned"
    /\ UNCHANGED <<shortlog, errorVars, slotVars, procVars, textVars, storeVars, callVars, coreVars>>

\* executeGitCommand rejects and getContributors rejects with it
GetContributorsFails ==
    /\ pc = "getContributors"
    /\ pc' = "gitFailed"
    /\ UNCHANGED <<gitVars, errorVars, slotVars, procVars, textVars, storeVars, callVars, coreVars>>

NextContributors == GetContributors \/ GetContributorsFails

SpecContributors == InitContributors /\ [][NextContributors]_vars

(***************************************************************************)
(* SpecError: ErrorHandler.  A value is raised, and either handed to       *)
(* handleError or thrown inside an operation that withErrorHandling wraps. *)
(***************************************************************************)
ErrorCodes == {"INVALID_TOKEN", "NETWORK_ERROR", "REPOSITORY_NOT_FOUND",
               "INSUFFICIENT_PERMISSIONS", "ANALYSIS_FAILED", "VALIDATION_ERROR",
               "RESOURCE_ERROR"}

ErrorMessages == {"No workspace folder found", "Failed to perform AI analysis",
                  "Failed to retrieve GitHub token"}

\* createError
CreateError(code, message, userMessage, recoverable) ==
    [type |-> "TeamXRayError", code |-> code, message |-> message,
     userMessage |-> userMessage, recoverable |-> recoverable]

\* what a throw statement or a handleError call may be given: a
\* TeamXRayError, an Error instance or a string
Raisable ==
    {CreateError(code, message, "user message", recoverable) :
        code \in ErrorCodes, message \in ErrorMessages, recoverable \in BOOLEAN}
    \cup {[CreateError("", message, "", FALSE) EXCEPT !.type = t] :
            message \in ErrorMessages, t \in {"Error", "string"}}

\* handleError: the TeamXRayError it presents
Normalized(error) ==
    IF error.type = "string"
    THEN CreateError("VALIDATION_ERROR", error.message, error.message, FALSE)
    ELSE IF error.type = "Error"
    THEN CreateError("VALIDATION_ERROR", error.message,
                     "An unexpected error occurred. Please try again.", FALSE)
    ELSE error

\* handleError: the message it shows
Presented(error) ==
    LET teamXRayError == Normalized(error)
    IN IF teamXRayError.recoverable
       THEN [severity |-> "warning", text |-> teamXRayError.userMessage,
             actions |-> <<"Retry", "Show Logs">>]
       ELSE [severity |-> "error", text |-> teamXRayError.userMessage,
             actions |-> <<"Show Logs">>]

\* `error instanceof Error ? error.message : String(error)`
Stringified(error) ==
    IF error.type = "TeamXRayError" THEN "[object Object]" ELSE error.message

\* the catch block of withErrorHandling: the error it hands to handleError
Wrapped(error, errorContext) ==
    CreateError("VALIDATION_ERROR", Stringified(error),
                "Failed to " \o errorContext \o ". Please try again.", TRUE)

InitError ==
    /\ pc = "raise"
    /\ raised \in Raisable
    /\ shown = <<>>
    /\ NoGit /\ NoCommand /\ NoProcess /\ NoText /\ NoStore /\ NoCalls
    /\ allFiles = <<>> /\ allCommits = <<>> /\ allContributors = <<>>
    /\ limit = 0 /\ sampled = NoValue
    /\ repoStats = NoValue /\ repositoryData = NoValue
    /\ NoMerge
    /\ NoRun

\* handleError(raised)
HandleError ==
    /\ pc = "raise"
    /\ shown' = Append(shown, Presented(raised))
    /\ pc' = "handled"
    /\ UNCHANGED <<raised, gitVars, slotVars, procVars, textVars, storeVars, callVars, coreVars>>

\* withErrorHandling(operation, errorContext) where operation throws `raised`
WithErrorHandling ==
    /\ pc = "raise"
    /\ shown' = Append(shown, Presented(Wrapped(raised, "analyze repository")))
    /\ pc' = "wrapped"
    /\ UNCHANGED <<raised, gitVars, slotVars, procVars, textVars, storeVars, callVars, coreVars>>

NextError == HandleError \/ WithErrorHandling

SpecError == InitError /\ [][NextError]_vars

(***************************************************************************)
(* SpecCommand: invocations of the command teamxray.analyzeRepository.     *)
(* The handler is an async function: an invocation runs until its next     *)
(* await, and another invocation may start or go on in between.  Runs are  *)
(* numbered in the order they start; the analysis a run produces is known  *)
(* by the number of the run.                                               *)
(***************************************************************************)
MaxRuns == 3       \* SpecCommand: invocations of the command

Runs == 1..MaxRuns

NoAnalysis == 0    \* workspaceState holds no 'lastAnalysis'

\* saveAnalysis: workspaceState.update('lastAnalysis', analysis)
SaveAnalysis(slot, analysis) == analysis

\* the `if (analysis)` of the command handler: the slot after analyzeRepository
\* returned in `run`
Saved(slot, run, succeeded) ==
    IF succeeded THEN SaveAnalysis(slot, run) ELSE slot

InitCommand ==
    /\ pc = "commands"
    /\ commandRuns = [r \in Runs |-> "notStarted"]
    /\ lastAnalysis = NoAnalysis
    /\ NoGit /\ NoError /\ NoProcess /\ NoText /\ NoStore /\ NoCalls
    /\ allFiles = <<>> /\ allCommits = <<>> /\ allContributors = <<>>
    /\ limit = 0 /\ sampled = NoValue
    /\ repoStats = NoValue /\ repositoryData = NoValue
    /\ NoMerge
    /\ NoRun

\* the command is invoked: the handler runs up to `await ensureGitHubToken()`
Invoke(r) ==
    /\ pc = "commands"
    /\ UNCHANGED <<pc, gitVars, errorVars, procVars, textVars, storeVars, callVars, coreVars>>
    /\ commandRuns[r] = "notStarted"
    /\ \A q \in Runs : q < r => commandRuns[q] # "notStarted"
    /\ commandRuns' = [commandRuns EXCEPT ![r] = "ensureGitHubToken"]
    /\ UNCHANGED lastAnalysis

\* ensureGitHubToken answers: without a token the handler returns, with one
\* it calls analyzeRepository inside withProgress
TokenChecked(r) ==
    /\ pc = "commands"
    /\ UNCHANGED <<pc, gitVars, errorVars, procVars, textVars, storeVars, callVars, coreVars>>
    /\ commandRuns[r] = "ensureGitHubToken"
    /\ \E hasToken \in BOOLEAN :
            commandRuns' = [commandRuns EXCEPT
                                ![r] = IF hasToken THEN "analyzing" ELSE "noToken"]
    /\ UNCHANGED lastAnalysis

\* analyzeRepository returns: an analysis is saved, null is not
AnalysisReturned(r) ==
    /\ pc = "commands"
    /\ UNCHANGED <<pc, gitVars, errorVars, procVars, textVars, storeVars, callVars, coreVars>>
    /\ commandRuns[r] = "analyzing"
    /\ \E succeeded \in BOOLEAN :
            /\ lastAnalysis' = Saved(lastAnalysis, r, succeeded)
            /\ commandRuns' = [commandRuns EXCEPT
                                ![r] = IF succeeded THEN "saving" ELSE "returnedNull"]

\* saveAnalysis returns; the tree and the webview are refreshed
ResultsShown(r) ==
    /\ pc = "commands"
    /\ UNCHANGED <<pc, gitVars, errorVars, procVars, textVars, storeVars, callVars, coreVars>>
    /\ commandRuns[r] = "saving"
    /\ commandRuns' = [commandRuns EXCEPT ![r] = "shown"]
    /\ UNCHANGED lastAnalysis

NextCommand ==
    \/ \E r \in Runs : Invoke(r)
    \/ \E r \in Runs : TokenChecked(r)
    \/ \E r \in Runs : AnalysisReturned(r)
    \/ \E r \in Runs : ResultsShown(r)

SpecCommand == InitCommand /\ [][NextCommand]_vars

(***************************************************************************)
(* SpecProcess: ResourceManager.  A task wrapped by withProgress starts    *)
(* child processes with executeCommand; each process writes to stdout,     *)
(* exits, fails to start or runs into its timeout, and the user may cancel *)
(* the progress notification.  Timers fire in any order: the model keeps   *)
(* no clock, an armed timer is one that may fire.                          *)
(***************************************************************************)
MaxProcesses == 2

MaxChunks == 1

Procs == 1..MaxProcesses

Pending == [state |-> "pending"]

Resolved(stdout, exitCode) ==
    [state |-> "resolved", stdout |-> stdout, exitCode |-> exitCode]

Rejected(code) == [state |-> "rejected", code |-> code]

\* resolve and reject settle a promise once; later calls have no effect
Settle(promise, outcome) ==
    IF promise.state = "pending" THEN outcome ELSE promise

\* a process executeCommand has not spawned yet; cancelled, expiredRunning
\* and code are history: whether the process was in the active set when the
\* user cancelled, whether the 5 second timer fired while the process was
\* still running, and the code its exit event carried
NotSpawned ==
    [status |-> "none", killed |-> FALSE, signals |-> <<>>,
     timeoutHandle |-> "none", forceKill |-> "none", stdout |-> 0,
     promise |-> Pending, cancelled |-> FALSE, expiredRunning |-> FALSE,
     code |-> "none"]

\* ChildProcess.kill(signal): a running process is sent the signal and its
\* `killed` flag is set; for a process that has exited the call does nothing
Kill(proc, signal) ==
    IF proc.status = "running"
    THEN [proc EXCEPT !.signals = Append(@, signal), !.killed = TRUE]
    ELSE proc

\* killProcess: SIGTERM and a 5 second timer, unless the flag is already set
KillProcess(proc) ==
    IF ~proc.killed
    THEN [Kill(proc, "SIGTERM") EXCEPT !.forceKill = "armed"]
    ELSE proc

\* cleanupActiveProcesses: killProcess for each active process, then clear
CleanupActiveProcesses(procs, active, byUser) ==
    [p \in Procs |->
        IF p \in active
        THEN [KillProcess(procs[p]) EXCEPT !.cancelled = @ \/ byUser]
        ELSE procs[p]]

\* `const exitCode = code || 0`: null (death by signal) and 0 both give 0
ExitCode(code) == IF code = "1" THEN 1 ELSE 0

\* the codes the exit event can carry: null only after a signal
ExitCodes(proc) == {"0", "1"} \cup (IF proc.signals = <<>> THEN {} ELSE {"null"})

InitProcess ==
    /\ pc = "process"
    /\ processes = [p \in Procs |-> NotSpawned]
    /\ activeProcesses = {}
    /\ cancellation = FALSE
    /\ taskState = "notStarted"
    /\ NoGit /\ NoError /\ NoCommand /\ NoText /\ NoStore /\ NoCalls
    /\ allFiles = <<>> /\ allCommits = <<>> /\ allContributors = <<>>
    /\ limit = 0 /\ sampled = NoValue
    /\ repoStats = NoValue /\ repositoryData = NoValue
    /\ NoMerge
    /\ NoRun

\* withProgress: the notification is shown and the task starts
WithProgress ==
    /\ pc = "process"
    /\ taskState = "notStarted"
    /\ taskState' = "running"
    /\ UNCHANGED <<pc, processes, activeProcesses, cancellation,
                   gitVars, errorVars, slotVars, textVars, storeVars, callVars, coreVars>>

\* executeCommand: spawn, add to the active set, arm the timeout if > 0
ExecuteCommand(p, timeout) ==
    /\ pc = "process"
    /\ taskState = "running"
    /\ processes[p].status = "none"
    /\ \A q \in Procs : q < p => processes[q].status # "none"
    /\ processes' = [processes EXCEPT ![p] =
            [@ EXCEPT !.status = "running",
                      !.timeoutHandle = IF timeout THEN "armed" ELSE "none"]]
    /\ activeProcesses' = activeProcesses \cup {p}
    /\ UNCHANGED <<pc, cancellation, taskState,
                   gitVars, errorVars, slotVars, textVars, storeVars, callVars, coreVars>>

\* the 'data' handler of stdout
Data(p) ==
    /\ pc = "process"
    /\ processes[p].status = "running"
    /\ processes[p].stdout < MaxChunks
    /\ processes' = [processes EXCEPT ![p].stdout = @ + 1]
    /\ UNCHANGED <<pc, activeProcesses, cancellation, taskState,
                   gitVars, errorVars, slotVars, textVars, storeVars, callVars, coreVars>>

\* the timeout callback: killProcess, then reject
Timeout(p) ==
    /\ pc = "process"
    /\ processes[p].timeoutHandle = "armed"
    /\ processes' = [processes EXCEPT ![p] =
            [KillProcess(@) EXCEPT
                !.timeoutHandle = "fired",
                !.promise = Settle(@, Rejected("RESOURCE_ERROR"))]]
    /\ UNCHANGED <<pc, activeProcesses, cancellation, taskState,
                   gitVars, errorVars, slotVars, textVars, storeVars, callVars, coreVars>>

\* the callback killProcess armed: SIGKILL unless the flag is set
ForceKill(p) ==
    /\ pc = "process"
    /\ processes[p].forceKill = "armed"
    /\ processes' = [processes EXCEPT ![p] =
            [(IF ~@.killed THEN Kill(@, "SIGKILL") ELSE @) EXCEPT
                !.forceKill = "fired",
                !.expiredRunning = @ \/ processes[p].status = "running"]]
    /\ UNCHANGED <<pc, activeProcesses, cancellation, taskState,
                   gitVars, errorVars, slotVars, textVars, storeVars, callVars, coreVars>>

\* the 'exit' handler: clear the timeout, leave the active set, resolve
Exit(p, code) ==
    /\ pc = "process"
    /\ processes[p].status = "running"
    /\ code \in ExitCodes(processes[p])
    /\ processes' = [processes EXCEPT ![p] =
            [@ EXCEPT
                !.status = "exited",
                !.code = code,
                !.timeoutHandle = IF @ = "armed" THEN "cleared" ELSE @,
                !.promise = Settle(@, Resolved(processes[p].stdout, ExitCode(code)))]]
    /\ activeProcesses' = activeProcesses \ {p}
    /\ UNCHANGED <<pc, cancellation, taskState,
                   gitVars, errorVars, slotVars, textVars, storeVars, callVars, coreVars>>

\* the 'error' handler: the process could not be spawned
ProcessError(p) ==
    /\ pc = "process"
    /\ processes[p].status = "running"
    /\ processes[p].stdout = 0
    /\ processes[p].signals = <<>>
    /\ processes' = [processes EXCEPT ![p] =
            [@ EXCEPT
                !.status = "exited",
                !.timeoutHandle = IF @ = "armed" THEN "cleared" ELSE @,
                !.promise = Settle(@, Rejected("RESOURCE_ERROR"))]]
    /\ activeProcesses' = activeProcesses \ {p}
    /\ UNCHANGED <<pc, cancellation, taskState,
                   gitVars, errorVars, slotVars, textVars, storeVars, callVars, coreVars>>

\* token.onCancellationRequested: the user cancels the notification
Cancel ==
    /\ pc = "process"
    /\ taskState = "running"
    /\ ~cancellation
    /\ cancellation' = TRUE
    /\ processes' = CleanupActiveProcesses(processes, activeProcesses, TRUE)
    /\ activeProcesses' = {}
    /\ UNCHANGED <<pc, taskState, gitVars, errorVars, slotVars, textVars, storeVars, callVars, coreVars>>

Spawned == {p \in Procs : processes[p].status # "none"}

\* `return await task(progress)`: the task awaited its commands and returns
TaskReturns ==
    /\ pc = "process"
    /\ taskState = "running"
    /\ Spawned # {}
    /\ \A p \in Spawned : processes[p].promise.state = "resolved"
    /\ taskState' = "value"
    /\ UNCHANGED <<pc, processes, activeProcesses, cancellation,
                   gitVars, errorVars, slotVars, textVars, storeVars, callVars, coreVars>>

\* the catch of withProgress: a command's rejection leaves the task
TaskThrows ==
    /\ pc = "process"
    /\ taskState = "running"
    /\ \E p \in Spawned : processes[p].promise.state = "rejected"
    /\ taskState' = "threw"
    /\ processes' = CleanupActiveProcesses(processes, activeProcesses, FALSE)
    /\ activeProcesses' = {}
    /\ UNCHANGED <<pc, cancellation, gitVars, errorVars, slotVars, textVars, storeVars, callVars, coreVars>>

NextProcess ==
    \/ WithProgress
    \/ \E p \in Procs, timeout \in BOOLEAN : ExecuteCommand(p, timeout)
    \/ \E p \in Procs : Data(p)
    \/ \E p \in Procs : Timeout(p)
    \/ \E p \in Procs : ForceKill(p)
    \/ \E p \in Procs, code \in {"null", "0", "1"} : Exit(p, code)
    \/ \E p \in Procs : ProcessError(p)
    \/ Cancel
    \/ TaskReturns
    \/ TaskThrows

SpecProcess == InitProcess /\ [][NextProcess]_vars

(***************************************************************************)
(* SpecExtract: extractJSONFromResponse.  A text is a sequence of          *)
(* characters.  The JSON texts are written over a small alphabet: "k"      *)
(* stands for a quoted key with its colon, "1" for a number.               *)
(***************************************************************************)
MaxNesting == 4

RegexNesting == 3

Whitespace == {" ", "\n"}

\* String.prototype.trim
RECURSIVE TrimStart(_)
TrimStart(text) ==
    IF text # <<>> /\ Head(text) \in Whitespace THEN TrimStart(Tail(text)) ELSE text

RECURSIVE TrimEnd(_)
TrimEnd(text) ==
    IF text # <<>> /\ text[Len(text)] \in Whitespace
    THEN TrimEnd(SubSeq(text, 1, Len(text) - 1))
    ELSE text

Trim(text) == TrimEnd(TrimStart(text))

StartsWith(text, prefix) ==
    Len(prefix) <= Len(text) /\ SubSeq(text, 1, Len(prefix)) = prefix

EndsWith(text, suffix) ==
    /\ Len(suffix) <= Len(text)
    /\ SubSeq(text, Len(text) - Len(suffix) + 1, Len(text)) = suffix

\* the backquote character
Backquote == "backquote"

Fence == <<Backquote, Backquote, Backquote>>

JsonFence == Fence \o <<"j", "s", "o", "n">>

\* the first replace: the opening marker and the white space after it are
\* removed from a text that starts with the marker
StripOpening(text, marker) ==
    TrimStart(SubSeq(text, Len(marker) + 1, Len(text)))

\* (mutant: the closing fence is left in place)
KeepClosing(text) == text

\* the second replace: a closing fence at the end of the text is removed
\* with the white space before it
StripClosing(text) ==
    IF EndsWith(text, Fence)
    THEN TrimEnd(SubSeq(text, 1, Len(text) - Len(Fence)))
    ELSE text

\* JSON.parse: the characters of the text that are not white space
Significant(text) == SelectSeq(text, LAMBDA c : c \notin Whitespace)

\* JSON.parse, the grammar: value := "1" | "{" [ "k" value { "," "k" value } ] "}".
\* Each operator returns the position after what it read, 0 for a syntax error.
RECURSIVE ParseValue(_, _)
RECURSIVE ParseRest(_, _)
ParseMember(t, i) ==
    IF i <= Len(t) /\ t[i] = "k"
    THEN LET j == ParseValue(t, i + 1) IN IF j = 0 THEN 0 ELSE ParseRest(t, j)
    ELSE 0

ParseRest(t, i) ==
    IF i > Len(t) THEN 0
    ELSE IF t[i] = "}" THEN i + 1
    ELSE IF t[i] = "," THEN ParseMember(t, i + 1)
    ELSE 0

ParseValue(t, i) ==
    IF i > Len(t) THEN 0
    ELSE IF t[i] = "1" THEN i + 1
    ELSE IF t[i] = "{"
         THEN IF i + 1 <= Len(t) /\ t[i + 1] = "}" THEN i + 2 ELSE ParseMember(t, i + 1)
    ELSE 0

\* JSON.parse: the value, or a SyntaxError
JsonParse(text) ==
    LET t == Significant(text)
    IN  IF ParseValue(t, 1) = Len(t) + 1
        THEN [ok |-> TRUE, value |-> t]
        ELSE [ok |-> FALSE, value |-> <<>>]

\* the end of the span the pattern matches from a "{" just before position i,
\* 0 if there is none: braces balance, nested at most RegexNesting deep
RECURSIVE Balanced(_, _, _)
Balanced(t, i, depth) ==
    IF i > Len(t) THEN 0
    ELSE IF t[i] = "{"
         THEN IF depth = RegexNesting THEN 0 ELSE Balanced(t, i + 1, depth + 1)
    ELSE IF t[i] = "}"
         THEN IF depth = 1 THEN i ELSE Balanced(t, i + 1, depth - 1)
    ELSE Balanced(t, i + 1, depth)

\* response.match of the nested-braces pattern: the leftmost match
NestedJsonMatch(text) ==
    LET starts == {i \in 1..Len(text) : text[i] = "{" /\ Balanced(text, i + 1, 1) # 0}
    IN  IF starts = {} THEN [matched |-> FALSE, text |-> <<>>]
        ELSE LET i == CHOOSE s \in starts : \A o \in starts : s <= o
             IN  [matched |-> TRUE, text |-> SubSeq(text, i, Balanced(text, i + 1, 1))]

NoJson == [found |-> FALSE, text |-> <<>>]

Json(text) == [found |-> TRUE, text |-> text]

ExtractJSONFromResponse(text) ==
    LET trimmed == Trim(text)
        cleanResponse ==
            IF StartsWith(trimmed, JsonFence)
            THEN StripClosing(StripOpening(trimmed, JsonFence))
            ELSE IF StartsWith(trimmed, Fence)
                 THEN StripClosing(StripOpening(trimmed, Fence))
                 ELSE trimmed
        nestedJsonMatch == NestedJsonMatch(text)
    IN  IF JsonParse(cleanResponse).ok THEN Json(cleanResponse)
        ELSE IF nestedJsonMatch.matched /\ JsonParse(nestedJsonMatch.text).ok
             THEN Json(nestedJsonMatch.text)
             ELSE NoJson

\* the inputs: JSON object texts nested 1..MaxNesting deep, with or without
\* a first member, padded with white space
Pads == {<<>>, <<" ">>, <<"\n">>}

RECURSIVE JsonObject(_, _, _)
JsonObject(depth, sibling, pad) ==
    IF depth = 1
    THEN <<"{">> \o pad \o (IF sibling THEN <<"k", "1">> ELSE <<>>) \o <<"}">>
    ELSE <<"{">> \o pad \o (IF sibling THEN <<"k", "1", ",">> ELSE <<>>)
             \o <<"k">> \o JsonObject(depth - 1, sibling, pad) \o pad \o <<"}">>

JsonTexts ==
    {before \o JsonObject(depth, sibling, pad) \o after :
        depth \in 1..MaxNesting, sibling \in BOOLEAN,
        pad \in Pads, before \in Pads, after \in Pads}

\* J wrapped in a json fence or a bare fence
Wrappings(json) ==
    {outer \o opening \o inner \o json \o inner \o Fence \o outer :
        opening \in {JsonFence, Fence}, inner \in Pads, outer \in Pads}

InitExtract ==
    /\ pc = "extract"
    /\ jsonText \in JsonTexts
    /\ fenced \in Wrappings(jsonText)
    /\ extracted = [plain |-> NoValue, fenced |-> NoValue]
    /\ NoGit /\ NoError /\ NoCommand /\ NoProcess /\ NoStore /\ NoCalls
    /\ allFiles = <<>> /\ allCommits = <<>> /\ allContributors = <<>>
    /\ limit = 0 /\ sampled = NoValue
    /\ repoStats = NoValue /\ repositoryData = NoValue
    /\ NoMerge
    /\ NoRun

\* extractJSONFromResponse(J)
ExtractPlain ==
    /\ pc = "extract"
    /\ extracted.plain = NoValue
    /\ extracted' = [extracted EXCEPT !.plain = ExtractJSONFromResponse(jsonText)]
    /\ UNCHANGED <<pc, jsonText, fenced, gitVars, errorVars, slotVars, procVars, storeVars, callVars, coreVars>>

\* extractJSONFromResponse(J in a fence)
ExtractFenced ==
    /\ pc = "extract"
    /\ extracted.fenced = NoValue
    /\ extracted' = [extracted EXCEPT !.fenced = ExtractJSONFromResponse(fenced)]
    /\ UNCHANGED <<pc, jsonText, fenced, gitVars, errorVars, slotVars, procVars, storeVars, callVars, coreVars>>

NextExtract == ExtractPlain \/ ExtractFenced

SpecExtract == InitExtract /\ [][NextExtract]_vars

(***************************************************************************)
(* SpecStore: saveAnalysis, workspaceState and getLastAnalysis.  A date is *)
(* known by its time; workspaceState keeps the object it was given until   *)
(* the window is reloaded, after which it holds what JSON kept of it.      *)
(***************************************************************************)
MaxTime == 2

MaxStored == 2

Date(time) == [kind |-> "Date", time |-> time]

IsoString(time) == [kind |-> "string", time |-> time]

Missing == [kind |-> "undefined"]

Times == 1..MaxTime

\* new Date(value), for a Date or the ISO string of one
NewDate(value) == Date(value.time)

\* `now` stands for the moment of the call
Now == Date(MaxTime + 1)

\* JSON.parse(JSON.stringify(value)) of a date: toJSON gives the ISO string
DateToJson(value) ==
    IF value.kind = "Date" THEN IsoString(value.time) ELSE value

ExpertToJson(expert) ==
    [expert EXCEPT !.lastCommit = DateToJson(@)]

FileToJson(file) ==
    [file EXCEPT !.lastModified = DateToJson(@),
                 !.experts = [i \in DOMAIN @ |-> ExpertToJson(@[i])]]

\* what the store holds of an analysis after a reload
AnalysisToJson(a) ==
    [a EXCEPT !.generatedAt = DateToJson(@),
              !.timestamp = DateToJson(@),
              !.expertProfiles = [i \in DOMAIN @ |-> ExpertToJson(@[i])],
              !.experts = [i \in DOMAIN @ |-> ExpertToJson(@[i])],
              !.fileExpertise = [i \in DOMAIN @ |-> FileToJson(@[i])]]

\* `generatedAt: new Date(analysis.generatedAt)`
RehydrateGeneratedAt(value) == NewDate(value)

\* `lastCommit: expert.lastCommit ? new Date(expert.lastCommit) : new Date()`
RehydrateExpert(expert) ==
    [expert EXCEPT !.lastCommit = IF @ = Missing THEN Now ELSE NewDate(@)]

\* getLastAnalysis: the spread of the stored object with generatedAt and
\* expertProfiles replaced
GetLastAnalysis(stored) ==
    IF stored = NoValue THEN NoValue
    ELSE [stored EXCEPT
            !.generatedAt = RehydrateGeneratedAt(@),
            !.expertProfiles = [i \in DOMAIN @ |-> RehydrateExpert(@[i])]]

\* the analyses the analyzer produces: experts and expertProfiles are one
\* list, every file names the first two experts
StoredExpert(i, time) ==
    [email |-> ToString(i) \o "@x", contributions |-> i, lastCommit |-> Date(time)]

MapFileExpertise(files, experts, time) ==
    [i \in 1..files |->
        [filePath |-> i, experts |-> Slice(experts, 0, 2), lastModified |-> Date(time)]]

Analyses ==
    {LET experts == [i \in 1..n |-> StoredExpert(i, commitTimes[i])]
     IN  [repository |-> "repo", generatedAt |-> Date(time), timestamp |-> Date(time),
          totalExperts |-> n, expertProfiles |-> experts, experts |-> experts,
          fileExpertise |-> MapFileExpertise(files, experts, time)] :
        n \in 0..MaxStored, files \in 0..MaxStored, time \in Times,
        commitTimes \in [1..MaxStored -> Times]}

InitStore ==
    /\ pc = "store"
    /\ savedAnalysis \in Analyses
    /\ workspaceState = NoValue
    /\ loaded = NoValue
    /\ NoGit /\ NoError /\ NoCommand /\ NoProcess /\ NoText /\ NoCalls
    /\ allFiles = <<>> /\ allCommits = <<>> /\ allContributors = <<>>
    /\ limit = 0 /\ sampled = NoValue
    /\ repoStats = NoValue /\ repositoryData = NoValue
    /\ NoMerge
    /\ NoRun

\* saveAnalysis(a)
SaveLastAnalysis ==
    /\ pc = "store"
    /\ workspaceState = NoValue
    /\ workspaceState' = savedAnalysis
    /\ UNCHANGED <<pc, savedAnalysis, loaded, gitVars, errorVars, slotVars, procVars,
                   textVars, callVars, coreVars>>

\* the window is reloaded: the extension starts again on the stored JSON
Reload ==
    /\ pc = "store"
    /\ workspaceState # NoValue
    /\ loaded = NoValue
    /\ workspaceState' = AnalysisToJson(workspaceState)
    /\ UNCHANGED <<pc, savedAnalysis, loaded, gitVars, errorVars, slotVars, procVars,
                   textVars, callVars, coreVars>>

\* getLastAnalysis(), as activate calls it
LoadLastAnalysis ==
    /\ pc = "store"
    /\ workspaceState # NoValue
    /\ loaded = NoValue
    /\ loaded' = GetLastAnalysis(workspaceState)
    /\ UNCHANGED <<pc, savedAnalysis, workspaceState, gitVars, errorVars, slotVars,
                   procVars, textVars, callVars, coreVars>>

NextStore == SaveLastAnalysis \/ Reload \/ LoadLastAnalysis

SpecStore == InitStore /\ [][NextStore]_vars

(***************************************************************************)
(* SpecToken: TokenManager calls that overlap.  A call runs up to its next *)
(* await; the secret store, GitHub and the input box answer in steps of    *)
(* their own, and the call goes on when the answer has arrived.  Nothing   *)
(* orders the answers to different calls.                                  *)
(***************************************************************************)
MaxCalls == 2

Calls == 1..MaxCalls

\* a call: what was called, where it stands, the token it works on, what it
\* returned ("" for undefined); changed and stored are history: whether a
\* step of the call wrote the secret, cachedToken or the validation cache,
\* whether the call stored a token, and whether it was made after a
\* clearToken had completed
IdleCall ==
    [op |-> "none", at |-> "idle", token |-> "", result |-> "",
     changed |-> FALSE, stored |-> FALSE, afterClear |-> FALSE]

SavedMessage == "GitHub token saved successfully"

\* the end of setToken inside the call: setToken returns to its caller, or
\* promptForToken catches what it threw and returns undefined, and the
\* command goes on to its message
SetTokenEnds(call, ok) ==
    IF call.op = "setToken"
    THEN [call EXCEPT !.at = "done", !.result = IF ok THEN "ok" ELSE "threw"]
    ELSE [call EXCEPT !.at = "done", !.result = IF ok THEN call.token ELSE ""]

\* `await tokenManager.promptForToken(...)` of the command has returned:
\* the messages after the command's last line
MessagesAfter(call, next) ==
    IF next.op = "setGitHubToken" /\ next.at = "done" /\ call.at # "done"
    THEN Append(infoMessages, SavedMessage)
    ELSE infoMessages

\* call c moves to `next`, leaving the secret, cachedToken and the
\* validation cache as given
TokenStep(c, next, sec, cached, cache, errors) ==
    /\ pc = "token"
    /\ tokenCalls' = [tokenCalls EXCEPT ![c] =
            [next EXCEPT !.changed =
                @ \/ <<sec, cached, cache>> # <<secret, cachedToken, validationCache>>]]
    /\ infoMessages' = MessagesAfter(tokenCalls[c], next)
    /\ secret' = sec
    /\ cachedToken' = cached
    /\ validationCache' = cache
    /\ errorsReported' = errorsReported + errors
    /\ UNCHANGED <<pc, gitVars, errorVars, slotVars, procVars, textVars, storeVars,
                   dataVars, samplerVars, gatherVars, heap, mergeVars, workspace, stack,
                   callData, smartResult, returnValue, historyVars>>

\* the call keeps the secret, cachedToken and the validation cache
TokenStepOnly(c, next) ==
    TokenStep(c, next, secret, cachedToken, validationCache, 0)

InitToken ==
    /\ pc = "token"
    /\ tokenCalls = [c \in Calls |-> IdleCall]
    /\ infoMessages = <<>>
    /\ secret \in {"", "stored token"}
    /\ cachedToken \in {"", secret}
    /\ validationCache = [t \in Tokens |-> "none"]
    /\ NoGit /\ NoError /\ NoCommand /\ NoProcess /\ NoText /\ NoStore
    /\ allFiles = <<>> /\ allCommits = <<>> /\ allContributors = <<>>
    /\ limit = 0 /\ sampled = NoValue
    /\ repoStats = NoValue /\ repositoryData = NoValue
    /\ NoMerge
    /\ workspace = TRUE
    /\ stack = <<>> /\ callData = NoValue
    /\ smartResult = NullAnalysis /\ returnValue = NullAnalysis
    /\ errorsReported = 0
    /\ firstReply = "none" /\ replyKinds = {} /\ outerYield = -1
    /\ lastOutcome = "none"

\* setToken(token) up to `await this.validateToken(token)`
CallSetToken(c, token) ==
    /\ tokenCalls[c].at = "idle"
    /\ TokenStepOnly(c, [tokenCalls[c] EXCEPT !.op = "setToken", !.at = "validate",
                                              !.token = token])

\* getToken() up to its return or `await this.context.secrets.get(...)`
CallGetToken(c) ==
    /\ tokenCalls[c].at = "idle"
    /\ LET cleared == \E d \in Calls : /\ tokenCalls[d].op = "clearToken"
                                        /\ tokenCalls[d].at = "done"
                                        /\ tokenCalls[d].result = "ok"
           call == [tokenCalls[c] EXCEPT !.op = "getToken", !.afterClear = cleared]
       IN TokenStepOnly(c,
            IF cachedToken # ""
            THEN [call EXCEPT !.at = "done", !.result = cachedToken]
            ELSE [call EXCEPT !.at = "read"])

\* ensureToken() up to the first await of its getToken()
CallEnsureToken(c) ==
    /\ tokenCalls[c].at = "idle"
    /\ TokenStepOnly(c,
            IF cachedToken # ""
            THEN [tokenCalls[c] EXCEPT !.op = "ensureToken", !.at = "check",
                                       !.token = cachedToken]
            ELSE [tokenCalls[c] EXCEPT !.op = "ensureToken", !.at = "read"])

\* clearToken() up to `await this.context.secrets.delete(...)`
CallClearToken(c) ==
    /\ tokenCalls[c].at = "idle"
    /\ TokenStepOnly(c, [tokenCalls[c] EXCEPT !.op = "clearToken", !.at = "delete"])

\* the teamxray.setGitHubToken command up to the input box of promptForToken
CallSetGitHubToken(c) ==
    /\ tokenCalls[c].at = "idle"
    /\ TokenStepOnly(c, [tokenCalls[c] EXCEPT !.op = "setGitHubToken", !.at = "prompt"])

\* the secret store answers secrets.get of getToken: with the secret it holds
\* now, or by rejecting, which getToken reports and turns into undefined
SecretRead(c, ok) ==
    /\ tokenCalls[c].at = "read"
    /\ IF ok
       THEN TokenStepOnly(c, [tokenCalls[c] EXCEPT !.at = "gotReply", !.token = secret])
       ELSE TokenStep(c,
                IF tokenCalls[c].op = "getToken"
                THEN [tokenCalls[c] EXCEPT !.at = "done", !.result = ""]
                ELSE [tokenCalls[c] EXCEPT !.at = "prompt"],
                secret, cachedToken, validationCache, 1)

\* getToken after its await: `if (token) { this.cachedToken = token; }`,
\* `return token`; ensureToken goes on with isTokenValid or with the prompt
ReadReturns(c) ==
    /\ tokenCalls[c].at = "gotReply"
    /\ LET token == tokenCalls[c].token
       IN TokenStep(c,
            IF tokenCalls[c].op = "getToken"
            THEN [tokenCalls[c] EXCEPT !.at = "done", !.result = token]
            ELSE [tokenCalls[c] EXCEPT !.at = IF token # "" THEN "check" ELSE "prompt"],
            secret, IF token # "" THEN token ELSE cachedToken, validationCache, 0)

\* ensureToken: `if (token && await this.isTokenValid(token)) return token`
CheckToken(c) ==
    /\ tokenCalls[c].at = "check"
    /\ \E o \in IsTokenValid(tokenCalls[c].token) :
        TokenStep(c,
            IF o.isValid
            THEN [tokenCalls[c] EXCEPT !.at = "done", !.result = tokenCalls[c].token]
            ELSE [tokenCalls[c] EXCEPT !.at = "prompt"],
            secret, cachedToken, o.cache, 0)

\* promptForToken: the input box returns what was typed, or undefined ("")
Prompt(c, input) ==
    /\ tokenCalls[c].at = "prompt"
    /\ TokenStepOnly(c,
            IF input = ""
            THEN [tokenCalls[c] EXCEPT !.at = "done", !.result = ""]
            ELSE [tokenCalls[c] EXCEPT !.at = "validate", !.token = input])

\* setToken after `await this.validateToken(token)`: an invalid token throws
Validate(c, isValid) ==
    /\ tokenCalls[c].at = "validate"
    /\ TokenStepOnly(c,
            IF isValid
            THEN [tokenCalls[c] EXCEPT !.at = "store"]
            ELSE SetTokenEnds(tokenCalls[c], FALSE))

\* the secret store takes secrets.store of setToken, or rejects it
SecretStore(c, ok) ==
    /\ tokenCalls[c].at = "store"
    /\ IF ok
       THEN TokenStep(c, [tokenCalls[c] EXCEPT !.at = "stored"],
                      tokenCalls[c].token, cachedToken, validationCache, 0)
       ELSE TokenStepOnly(c, SetTokenEnds(tokenCalls[c], FALSE))

\* setToken after its await: cachedToken and the validation cache are set
StoreReturns(c) ==
    /\ tokenCalls[c].at = "stored"
    /\ TokenStep(c, [SetTokenEnds(tokenCalls[c], TRUE) EXCEPT !.stored = TRUE],
                 secret, tokenCalls[c].token,
                 [validationCache EXCEPT ![tokenCalls[c].token] = "valid"], 0)

\* the secret store takes secrets.delete of clearToken, or rejects it
SecretDelete(c, ok) ==
    /\ tokenCalls[c].at = "delete"
    /\ IF ok
       THEN TokenStep(c, [tokenCalls[c] EXCEPT !.at = "deleted"],
                      "", cachedToken, validationCache, 0)
       ELSE TokenStepOnly(c, [tokenCalls[c] EXCEPT !.at = "done", !.result = "threw"])

\* clearToken after its await: `this.cachedToken = null`, the cache cleared
DeleteReturns(c) ==
    /\ tokenCalls[c].at = "deleted"
    /\ TokenStep(c, [tokenCalls[c] EXCEPT !.at = "done", !.result = "ok"],
                 secret, "", [t \in Tokens |-> "none"], 0)

NextToken ==
    \/ \E c \in Calls, token \in Tokens : CallSetToken(c, token)
    \/ \E c \in Calls : CallGetToken(c)
    \/ \E c \in Calls : CallEnsureToken(c)
    \/ \E c \in Calls : CallClearToken(c)
    \/ \E c \in Calls : CallSetGitHubToken(c)
    \/ \E c \in Calls, ok \in BOOLEAN : SecretRead(c, ok)
    \/ \E c \in Calls : ReadReturns(c)
    \/ \E c \in Calls : CheckToken(c)
    \/ \E c \in Calls, input \in Tokens \cup {""} : Prompt(c, input)
    \/ \E c \in Calls, isValid \in BOOLEAN : Validate(c, isValid)
    \/ \E c \in Calls, ok \in BOOLEAN : SecretStore(c, ok)
    \/ \E c \in Calls : StoreReturns(c)
    \/ \E c \in Calls, ok \in BOOLEAN : SecretDelete(c, ok)
    \/ \E c \in Calls : DeleteReturns(c)

SpecToken == InitToken /\ [][NextToken]_vars

(***************************************************************************)
(* Claims about the samplers.                                              *)
(***************************************************************************)
CeilTimes07(n) == (7 * n + 9) \div 10

SampledCommits == pc = "sampled" /\ sampled.op = "sampleCommits"

\* C8: sampleCommits returns exactly min(limit, commits.length) items, and
\* when commits.length > limit the first ceil(limit*0.7) items returned are
\* distinct commits of the input in newest-first order, none of them older
\* than any commit of the input outside them.
C8_SampleCommits ==
    SampledCommits =>
        LET in == sampled.input
            out == sampled.out
            k == CeilTimes07(limit)
        IN /\ Len(out) = Min(limit, Len(in))
           /\ Len(in) > limit =>
                /\ k <= Len(out)
                /\ \A i \in 1..k : out[i] \in Range(in)
                /\ \A i, j \in 1..k : i < j =>
                        out[i] # out[j] /\ out[i].date >= out[j].date
                /\ \A c \in Range(in) \ {out[i] : i \in 1..k} :
                        \A i \in 1..k : c.date <= out[i].date

\* a run where sampling applies to commits given oldest-first, and both the
\* recent and the distributed part are non-empty
C8_Witness ==
    /\ SampledCommits
    /\ Len(sampled.input) > limit
    /\ limit >= 3
    /\ sampled.input[1].date < sampled.input[Len(sampled.input)].date
    /\ Len(sampled.out) = limit

(***************************************************************************)
(* Claims about the size tiers.                                            *)
(***************************************************************************)
Gathered == pc = "gathered"

\* C7 (as claimed): whenever the original number of files (contributors)
\* exceeds the tier's limit, the sampled list has exactly limit entries.
C7_ExactlyLimit ==
    Gathered =>
        LET limits == SIZE_LIMITS[repoStats.repositorySize]
            original == repositoryData.samplingApplied
        IN /\ original.originalFiles > limits.files =>
                    Len(repositoryData.files) = limits.files
           /\ original.originalContributors > limits.contributors =>
                    Len(repositoryData.contributors) = limits.contributors

TierRank(t) == CASE t = "small" -> 0 [] t = "medium" -> 1
                 [] t = "large" -> 2 [] t = "enterprise" -> 3

\* the counts next to the thresholds of assessRepositorySize
ThresholdCounts == {0, 20, 21, 30, 31, 50, 51, 200, 201, 500, 501, 1000, 1001}

\* C9: the tier assessRepositorySize assigns is not lower than the tier of
\* any repository with no more files and no more contributors.
C9_TierMonotonic ==
    pc \in {"gather", "gathered"} =>
        \A f \in ThresholdCounts, c \in ThresholdCounts :
            f <= repoStats.totalFiles /\ c <= repoStats.totalContributors =>
                TierRank(RepositorySize(f, c)) <= TierRank(repoStats.repositorySize)

\* an enterprise repository by its contributors alone, assessed
C9_Witness ==
    /\ pc = "gather"
    /\ repoStats.totalFiles <= 1000
    /\ repoStats.totalContributors > 50
    /\ repoStats.repositorySize = "enterprise"

(***************************************************************************)
(* Claims about mergeChunkResults.                                         *)
(***************************************************************************)
\* the Expert objects of the chunk results as they were parsed
OriginalExperts == ParseAll(contents, <<>>, EmptyHeap).heap.experts

OccurrencesOf(email) ==
    {i \in 1..Len(OriginalExperts) : OriginalExperts[i].email = email}

RECURSIVE SumOver(_, _)
SumOver(experts, indices) ==
    IF indices = {} THEN 0
    ELSE LET i == CHOOSE j \in indices : TRUE
         IN experts[i].contributions + SumOver(experts, indices \ {i})

\* mergeChunkResults over fresh copies of the three chunk results
OnePassOverCopies ==
    LET fresh == ParseAll(contents, <<>>, EmptyHeap)
        m == MergeChunkResults(fresh.results, MergeData, fresh.heap)
    IN Profiles(m.analysis, m.heap)

\* C10: after a merge of all three chunk results, in one pass or in two
\* steps, every email of a chunk result has exactly one expert, with the sum
\* of the contributions, the maximum of the expertise and the union of the
\* specializations of its occurrences; and the two-step merge has the
\* per-email contribution sums of the one-pass merge.
C10_MergeByEmail ==
    pc \in {"onePass", "twoStep"} =>
        LET profiles == Profiles(merged, heap)
        IN /\ {profiles[i].email : i \in 1..Len(profiles)}
                = {OriginalExperts[i].email : i \in 1..Len(OriginalExperts)}
           /\ \A i, j \in 1..Len(profiles) :
                    profiles[i].email = profiles[j].email => i = j
           /\ \A i \in 1..Len(profiles) :
                LET occ == OccurrencesOf(profiles[i].email)
                IN /\ profiles[i].contributions = SumOver(OriginalExperts, occ)
                   /\ \E o \in occ : profiles[i].expertise = OriginalExperts[o].expertise
                   /\ \A o \in occ : profiles[i].expertise >= OriginalExperts[o].expertise
                   /\ Range(profiles[i].specializations)
                        = UNION {Range(OriginalExperts[o].specializations) : o \in occ}
           /\ pc = "twoStep" =>
                \A i \in 1..Len(profiles) : \E j \in 1..Len(OnePassOverCopies) :
                    /\ OnePassOverCopies[j].email = profiles[i].email
                    /\ OnePassOverCopies[j].contributions = profiles[i].contributions

\* a two-step merge where one email occurs in A, in B and in C
C10_Witness ==
    /\ pc = "twoStep"
    /\ \A k \in 1..3 : \E i \in 1..Len(contents[k].experts) :
            contents[k].experts[i].email = "a@x"
    /\ \E i \in 1..merged.totalExperts :
            /\ Profiles(merged, heap)[i].email = "a@x"
            /\ Profiles(merged, heap)[i].contributions >= 3

(***************************************************************************)
(* Claims about the analysis run.                                          *)
(***************************************************************************)
Done == pc = "done"

\* the run made its first completion call with the full repository data
StandardFirst == EstimatePromptSize(repositoryData) <= LargePrompt

HasNotice(a, title, text, n) ==
    \E i \in 1..Len(a.insights) :
        Insights(a, heap)[i] = Insight(title, text, n)

HasProcessingMethod(a) ==
    HasNotice(a, "Processing Method",
              "Analysis completed using chunked processing for large repository", 0)

HasDataProcessing(a) ==
    \E n \in 1..(2 * MaxDepth + 2) :
        HasNotice(a, "Data Processing",
                  "Processed N data chunks to handle repository size", n)

\* the values of an analysis: its profiles and insights as objects
Value(a, h) ==
    [a EXCEPT !.expertProfiles = Profiles(a, h), !.insights = Insights(a, h)]

FallbackOfRepository ==
    LET fb == CreateFallbackAnalysis(repositoryData, EmptyHeap)
    IN Value(fb.analysis, fb.heap)

\* C1: every analysis run terminates: whatever the repository data and the
\* outcomes of the completion API, also when it answers HTTP 413 to every
\* call, performSmartAIAnalysis eventually returns.
C1_Terminates == <>(pc \in {"done", "rejected"})

\* C2: whenever performSmartAIAnalysis returns, its result is a complete
\* ExpertiseAnalysis, never null, for every token state, prompt-size
\* estimate and outcome of the completion API.
C2_NeverNull == Done => ~smartResult.isNull

\* C3 as stated: when the first standard completion call of a run fails with
\* HTTP 413, the insights of the final result contain both chunked-processing
\* notices, whatever the outcomes of the per-group calls.
C3_NoticesAlways ==
    (Done /\ StandardFirst /\ firstReply = "413")
        => HasProcessingMethod(returnValue) /\ HasDataProcessing(returnValue)

\* C3 as amended: when the first standard completion call of a run fails
\* with HTTP 413 the run goes through chunked analysis, and its final result
\* holds both notices, the second with the number of chunk results, if at
\* least one group call yielded a result; if none did, the final result is
\* the fallback analysis of the full repository data, without the notices.
C3_NoticesWhenAChunkYields ==
    (Done /\ StandardFirst /\ firstReply = "413")
        => /\ outerYield >= 0
           /\ outerYield >= 1 =>
                /\ HasProcessingMethod(returnValue)
                /\ HasNotice(returnValue, "Data Processing",
                             "Processed N data chunks to handle repository size",
                             outerYield)
           /\ outerYield = 0 =>
                /\ Value(returnValue, heap) = FallbackOfRepository
                /\ ~HasProcessingMethod(returnValue)
                /\ ~HasDataProcessing(returnValue)

\* a 413 on the first call, two groups, one of which yields a result
C3_Witness ==
    /\ Done /\ StandardFirst /\ firstReply = "413"
    /\ outerYield = 1
    /\ Len(repositoryData.contributors) > ChunkSize
    /\ "network error" \in replyKinds

\* C4: when a token is stored and the completion call fails with a network
\* error, analyzeRepository returns the fallback analysis: totalExperts is
\* the number of sampled contributors, the first expert is the contributor
\* with the highest commit count, totalFiles is the original file count.
C4_NetworkFailureFallback ==
    (Done /\ replyKinds = {"network error"})
        => /\ ~returnValue.isNull
           /\ Value(returnValue, heap) = FallbackOfRepository
           /\ returnValue.totalExperts = Len(repositoryData.contributors)
           /\ returnValue.totalFiles = Len(allFiles)
           /\ returnValue.totalExperts > 0 =>
                LET first == Profiles(returnValue, heap)[1]
                IN /\ first.name = allContributors[1].name
                   /\ \A i \in 1..Len(allContributors) :
                        first.contributions >= allContributors[i].commits

\* three contributors, the full data sent in one call that gets no response
C4_Witness ==
    /\ Done /\ replyKinds = {"network error"}
    /\ StandardFirst
    /\ Len(allContributors) = 3
    /\ returnValue.totalExperts = 3
    /\ Profiles(returnValue, heap)[1].contributions = 30

\* C5: in every ExpertiseAnalysis produced by any path, no two entries of
\* expertProfiles have the same email.
C5_UniqueEmails ==
    (Done /\ ~returnValue.isNull)
        => LET profiles == Profiles(returnValue, heap)
           IN \A i, j \in 1..Len(profiles) :
                profiles[i].email = profiles[j].email => i = j

\* the analyses a run has produced: the chunk results kept by the chunked
\* analyses in progress, and the result returned
Produced ==
    UNION {Range(stack[d].chunkResults) : d \in 1..Len(stack)}
    \cup (IF Done /\ ~returnValue.isNull THEN {returnValue} ELSE {})

\* C6: in every ExpertiseAnalysis produced by any path, also a group result
\* inside chunked analysis, totalExperts is the length of expertProfiles and
\* totalFiles is the number of files found before sampling.
C6_Totals ==
    \A a \in Produced :
        /\ a.totalExperts = Len(a.expertProfiles)
        /\ a.totalFiles = Len(allFiles)

\* a group result in a repository of more files than the limit of its tier
C6_Witness ==
    /\ pc = "delay"
    /\ Len(stack[1].chunkResults) = 1
    /\ stack[1].chunkResults[1].totalExperts = 2
    /\ Len(repositoryData.files) < Len(allFiles)
    /\ ChunkFiles < Len(repositoryData.files)

(***************************************************************************)
(* Claims about the insights of a merge.                                   *)
(***************************************************************************)
\* the insight objects the chunk results hold, as values
GroupInsights ==
    UNION {Range(Insights(chunkResults[k], heap)) : k \in 1..Len(chunkResults)}

\* C11: the insights of a merged chunked result contain every distinct
\* insight returned by the groups exactly once (two groups returning the same
\* insight text yield one entry), followed by exactly the two notices of
\* chunked processing.
C11_InsightsOnce ==
    pc = "onePass" =>
        LET all == Insights(merged, heap)
            n == Len(all)
            body == SubSeq(all, 1, n - 2)
        IN /\ n >= 2
           /\ SubSeq(all, n - 1, n) = ChunkNotices(Len(chunkResults))
           /\ Range(body) = GroupInsights
           /\ \A i, j \in 1..Len(body) : body[i] = body[j] => i = j

(***************************************************************************)
(* Claims about GitService.getContributors.                                *)
(***************************************************************************)
\* C12: for every output of `git shortlog -sne --all`, the list
\* getContributors returns is sorted in non-increasing order of commit count
\* and holds no two entries with the same email.
C12_SortedUnique ==
    pc = "returned" =>
        /\ \A i \in 1..(Len(gitContributors) - 1) :
                gitContributors[i].commits >= gitContributors[i + 1].commits
        /\ \A i, j \in 1..Len(gitContributors) :
                gitContributors[i].email = gitContributors[j].email => i = j

(***************************************************************************)
(* Claims about createFallbackAnalysis.                                    *)
(***************************************************************************)
\* the run returned an analysis built by createFallbackAnalysis
ReturnedFallback ==
    /\ Done /\ ~returnValue.isNull
    /\ Value(returnValue, heap) = FallbackOfRepository

\* C13: createFallbackAnalysis does not throw; given an empty contributors
\* list and an empty files list it returns an ExpertiseAnalysis with
\* totalExperts = 0, an empty expertProfiles list and a non-empty insights
\* list that includes the notice that no contributor data is available.
C13_EmptyFallback ==
    (Done /\ replyKinds \subseteq {"network error", "http error", "413"}
          /\ replyKinds # {}
          /\ allFiles = <<>> /\ allContributors = <<>>)
        => /\ ReturnedFallback
           /\ returnValue.totalExperts = 0
           /\ returnValue.expertProfiles = <<>>
           /\ returnValue.insights # <<>>
           /\ HasNotice(returnValue, "No Contributor Data",
                        "No contributor data available", 0)
           /\ ~HasNotice(returnValue, "Most Active Contributor",
                         "Most active contributor: N", 0)

\* a repository without files and contributors whose completion call fails
C13_Witness ==
    /\ ReturnedFallback
    /\ allFiles = <<>> /\ allContributors = <<>>
    /\ replyKinds = {"http error"}
    /\ returnValue.totalFiles = 0
    /\ Len(returnValue.insights) = 5

(***************************************************************************)
(* Claims about error reporting.                                           *)
(***************************************************************************)
\* analyzeRepository returned null
Failed == pc = "rejected" \/ (Done /\ returnValue.isNull)

\* C14: analyzeRepository never propagates an exception: for every failure
\* inside it (no workspace folder, no token, data gathering throws, analysis
\* returns null) the promise resolves to null after exactly one error has
\* been reported through ErrorHandler.handleError.
C14_OneErrorReported == Failed => errorsReported = 1

\* C15: the presentation of an error follows the recoverable flag given
\* where the error was created: with recoverable = true a warning offering
\* 'Retry' and 'Show Logs', with recoverable = false an error message
\* offering only 'Show Logs'; also when the error is thrown inside an
\* operation wrapped by withErrorHandling.
C15_PresentationFollowsFlag ==
    (pc \in {"handled", "wrapped"} /\ raised.type = "TeamXRayError")
        => /\ Len(shown) = 1
           /\ raised.recoverable =>
                /\ shown[1].severity = "warning"
                /\ shown[1].actions = <<"Retry", "Show Logs">>
           /\ ~raised.recoverable =>
                /\ shown[1].severity = "error"
                /\ shown[1].actions = <<"Show Logs">>

(***************************************************************************)
(* Claims about the lastAnalysis slot.                                     *)
(***************************************************************************)
Successful == {r \in Runs : commandRuns[r] \in {"saving", "shown"}}

InProgress == {r \in Runs : commandRuns[r] \in {"ensureGitHubToken", "analyzing"}}

\* C16: the lastAnalysis slot always holds the result of the most recent
\* run: after any sequence and interleaving of invocations, getLastAnalysis
\* returns the result of the successful run that was started last, and a run
\* that returns null leaves the slot unchanged.
C16_LastStartedWins ==
    (pc = "commands" /\ InProgress = {})
        => /\ Successful = {} => lastAnalysis = NoAnalysis
           /\ Successful # {} =>
                /\ lastAnalysis \in Successful
                /\ \A r \in Successful : r <= lastAnalysis

(***************************************************************************)
(* Claims about ResourceManager.                                           *)
(***************************************************************************)
Signals(p) == Range(processes[p].signals)

\* C17: when the user cancels a withProgress operation while processes
\* started by executeCommand are running, each of them is sent a termination
\* signal and removed from the active set, and no partial result is
\* delivered: the promise of a cancelled process never resolves with a
\* (stdout, exit code) result and the wrapped task does not complete with a
\* value.
C17_CancelDeliversNothing ==
    pc = "process" =>
        /\ \A p \in Procs : processes[p].cancelled =>
                /\ "SIGTERM" \in Signals(p)
                /\ p \notin activeProcesses
                /\ processes[p].promise.state # "resolved"
        /\ (\E p \in Procs : processes[p].cancelled) => taskState # "value"

\* C18: a process whose timeout elapsed while it was running has been sent
\* SIGTERM and its promise is rejected with RESOURCE_ERROR, and if it was
\* still running when the 5 second timer fired it has been sent SIGKILL.
C18_TimeoutKills ==
    pc = "process" =>
        \A p \in Procs : processes[p].timeoutHandle = "fired" =>
            /\ "SIGTERM" \in Signals(p)
            /\ processes[p].promise = Rejected("RESOURCE_ERROR")
            /\ processes[p].expiredRunning => "SIGKILL" \in Signals(p)

\* C30: executeCommand settles its promise once; the promise is resolved
\* with exitCode 0 only if the exit event carried code 0, never for a process
\* a signal terminated (exit code null); and once the exit or error handler
\* has settled, the process is not in the active set.
C30_SettlesOnceExitCodeZero ==
    /\ [](pc = "process" =>
            \A p \in Procs :
                /\ (/\ processes[p].promise.state = "resolved"
                    /\ processes[p].promise.exitCode = 0)
                        => processes[p].code = "0"
                /\ processes[p].status = "exited"
                        => /\ processes[p].promise.state # "pending"
                           /\ p \notin activeProcesses)
    /\ [][pc = "process" =>
            \A p \in Procs :
                processes[p].promise.state # "pending"
                    => processes'[p].promise = processes[p].promise]_vars

(***************************************************************************)
(* Claims about extractJSONFromResponse.                                   *)
(***************************************************************************)
BothExtracted ==
    pc = "extract" /\ extracted.plain # NoValue /\ extracted.fenced # NoValue

\* C19: for every JSON object text J, extractJSONFromResponse applied to J
\* wrapped in a json fence or a bare fence returns a string that
\* parses to the same object as extractJSONFromResponse applied to J itself.
C19_FenceTransparent ==
    BothExtracted =>
        /\ extracted.plain.found
        /\ extracted.fenced.found
        /\ JsonParse(extracted.fenced.text) = JsonParse(extracted.plain.text)
        /\ JsonParse(extracted.plain.text) = JsonParse(jsonText)

\* an object nested deeper than the pattern reaches, in a json fence
\* with line breaks, extracted both ways
C19_Witness ==
    /\ BothExtracted
    /\ StartsWith(Trim(fenced), JsonFence \o <<"\n">>)
    /\ Len(SelectSeq(jsonText, LAMBDA c : c = "{")) = MaxNesting
    /\ extracted.fenced.found
    /\ JsonParse(extracted.fenced.text).ok

(***************************************************************************)
(* Claims about sampling within the limit.                                 *)
(***************************************************************************)
Resampled == pc = "resampled"

\* C20: sampling is a no-op within the limit: for sampleFiles, sampleCommits
\* and sampleContributors, when the input length is <= limit the result has
\* the same elements in the same order as the input, and applying the
\* sampler to its own output returns that output.
C20_NoOpWithinLimit ==
    /\ (pc \in {"sampled", "resampled"} /\ Len(sampled.input) <= limit)
            => sampled.out = sampled.input
    /\ (Resampled /\ Len(sampled.input) <= limit)
            => sampled.again = sampled.out

\* contributors given in ascending order of commits, within the limit,
\* sampled twice
C20_Witness ==
    /\ Resampled
    /\ sampled.op = "sampleContributors"
    /\ Len(sampled.input) = limit
    /\ limit >= 2
    /\ sampled.input[1].commits < sampled.input[2].commits
    /\ sampled.again = sampled.input

(***************************************************************************)
(* Claims about the stored analysis.                                       *)
(***************************************************************************)
\* C21: getLastAnalysis after saveAnalysis(a) returns an analysis equal to a
\* in every field, every date field (generatedAt, timestamp, lastCommit of
\* the experts in expertProfiles and in experts, lastModified and the nested
\* experts' dates in fileExpertise) being a date equal to the saved one.
C21_RoundTrip ==
    (pc = "store" /\ loaded # NoValue) => loaded = savedAnalysis

(***************************************************************************)
(* Claims about replies without JSON and failed group calls.               *)
(***************************************************************************)
\* C22: a model response from which no valid JSON can be extracted has the
\* outcome of a failed call: on the standard path the run ends in the
\* fallback analysis of the full repository data, and inside chunked
\* analysis the group is skipped, so that when every group's response is
\* without JSON no group yields a result and the final result is the plain
\* fallback analysis, without the chunked-processing notices.
C22_NoJsonIsFailure ==
    /\ (Done /\ StandardFirst /\ replyKinds = {"noJson"})
            => Value(returnValue, heap) = FallbackOfRepository
    /\ (Done /\ StandardFirst /\ firstReply = "413" /\ replyKinds = {"413", "noJson"})
            => /\ outerYield = 0
               /\ Value(returnValue, heap) = FallbackOfRepository
               /\ ~HasProcessingMethod(returnValue)
               /\ ~HasDataProcessing(returnValue)

FailedOutcomes == {"network error", "http error", "no token"}

\* a group call of the innermost chunked analysis ends in this step, failed
GroupCallFails ==
    /\ pc \in {"ensureToken", "call"}
    /\ stack # <<>>
    /\ lastOutcome' \in FailedOutcomes

\* C23: in chunked analysis a group whose call fails (it throws, or yields
\* no result because no token is available) does not abort the loop: before
\* the last group the loop goes on to the delay and the next group with the
\* chunk results it had, after the last group the chunk results collected
\* are those it had, and if no group yielded a result the outcome is
\* createFallbackAnalysis of the full repository data.
C23_FailedGroupSkipped ==
    [][GroupCallFails =>
        LET top == stack[Len(stack)]
        IN  IF top.i < Len(top.contributorChunks) - 1
            THEN pc' = "delay" /\ stack' = stack
            ELSE /\ Len(stack') < Len(stack)
                 /\ Len(stack) = 1 =>
                        /\ outerYield' = Len(top.chunkResults)
                        /\ (top.chunkResults = <<>> /\ top.data = repositoryData) =>
                                /\ pc' = "done"
                                /\ Value(returnValue', heap') = FallbackOfRepository]_vars

\* more than one group, each call failed, the run ended in the fallback analysis
C23_Witness ==
    /\ Done /\ firstReply = "413"
    /\ Len(repositoryData.contributors) > ChunkSize
    /\ replyKinds = {"413", "network error"}
    /\ lastOutcome = "network error"
    /\ outerYield = 0
    /\ ReturnedFallback

(***************************************************************************)
(* Claims about the order of the group calls.                              *)
(***************************************************************************)
Innermost == stack[Len(stack)]

\* the innermost chunked analysis in progress is the same call in the next
\* state
SamePass ==
    /\ stack # <<>> /\ Len(stack') = Len(stack)
    /\ Innermost'.data = Innermost.data

\* C24: chunked analysis is sequential: a request is sent only by the one
\* call in progress, after its token check; group i+1 is started only by
\* the timer that was set after group i's call ended, one group at a time;
\* the timer is set only when a group follows, and a pass over the groups
\* ends only after its last group, so that it sees exactly (number of
\* groups - 1) delays.
C24_Sequential ==
    /\ [](pc = "delay" =>
            /\ stack # <<>>
            /\ Innermost.i < Len(Innermost.contributorChunks) - 1
            /\ callData = NoValue)
    /\ [][/\ (pc' = "call" /\ pc # "call") => (pc = "ensureToken" /\ callData' = callData)
          /\ (SamePass /\ Innermost'.i # Innermost.i) =>
                /\ pc = "delay" /\ pc' = "ensureToken"
                /\ Innermost'.i = Innermost.i + 1
                /\ callData' = ChunkData(Innermost.data,
                                         Innermost.contributorChunks[Innermost.i + 2])
          /\ (stack # <<>> /\ Len(stack') < Len(stack)) =>
                /\ pc \in {"ensureToken", "call"}
                /\ Innermost.i = Len(Innermost.contributorChunks) - 1
          /\ (pc' = "delay" /\ pc # "delay") =>
                /\ pc \in {"ensureToken", "call"}
                /\ Len(stack') <= Len(stack)]_vars

\* the second group of a pass has been started after the delay
C24_Witness ==
    /\ pc = "call"
    /\ Len(stack) = 1
    /\ Innermost.i = 1
    /\ Len(Innermost.contributorChunks) = 2
    /\ callData.contributors = Innermost.contributorChunks[2]

(***************************************************************************)
(* Claims about the expertise score.                                       *)
(***************************************************************************)
\* the contributor an expert of a fallback analysis was made from
FallbackScore(commits) == Min(90, 30 + 2 * commits)

\* C25: every Expert of every ExpertiseAnalysis produced, on the fallback,
\* the parsed and the merged path, has an expertise score in 0..100, and on
\* the fallback path the score is min(90, 30 + 2 * commits) of the
\* contributor.
C25_ScoreInRange ==
    /\ \A a \in Produced : \A i \in 1..Len(a.expertProfiles) :
            Profiles(a, heap)[i].expertise \in 0..100
    /\ ReturnedFallback =>
            \A i \in 1..Len(returnValue.expertProfiles) :
                Profiles(returnValue, heap)[i].expertise =
                    FallbackScore(repositoryData.contributors[i].commits)

(***************************************************************************)
(* Claims about sampleFiles.                                               *)
(***************************************************************************)
SampledFiles == pc \in {"sampled", "resampled"} /\ sampled.op = "sampleFiles"

\* the first n items of s
FirstN(s, n) == SubSeq(s, 1, n)

\* C26: when files.length > limit, sampleFiles returns, in this order, the
\* first min(|high|, floor(0.3*limit)) high-priority files, the first
\* min(|medium|, floor(0.3*limit)) medium-priority files and then
\* low-priority files up to the remainder of the limit, capped by the size
\* of the low bucket, each in input order; the result has no duplicates and
\* every file of it is a file of the input.
C26_SampleFiles ==
    (SampledFiles /\ Len(sampled.input) > limit) =>
        LET in == sampled.input
            out == sampled.out
            high == SelectSeq(in, LAMBDA f : f.hasHigh)
            medium == SelectSeq(in, LAMBDA f : ~f.hasHigh /\ f.hasMedium)
            low == SelectSeq(in, LAMBDA f : ~f.hasHigh /\ ~f.hasMedium)
            share == (limit * 3) \div 10
            h == IF Len(high) < share THEN Len(high) ELSE share
            m == IF Len(medium) < share THEN Len(medium) ELSE share
            l == IF Len(low) < limit - h - m THEN Len(low) ELSE limit - h - m
        IN  /\ out = FirstN(high, h) \o FirstN(medium, m) \o FirstN(low, l)
            /\ \A i, j \in 1..Len(out) : i # j => out[i] # out[j]
            /\ \A i \in 1..Len(out) : \E j \in 1..Len(in) : out[i] = in[j]

\* five files, a low-priority one first, sampled to one high, one medium
\* and two low
C26_Witness ==
    /\ SampledFiles
    /\ limit = 4 /\ Len(sampled.input) = 5
    /\ ~sampled.input[1].hasHigh /\ ~sampled.input[1].hasMedium
    /\ Len(sampled.out) = 4
    /\ sampled.out[1].hasHigh
    /\ ~sampled.out[2].hasHigh /\ sampled.out[2].hasMedium
    /\ sampled.out[4] = sampled.input[Len(sampled.input)]

(***************************************************************************)
(* Claims about what a merge leaves of its arguments.                      *)
(***************************************************************************)
\* the chunk results as they were parsed, before any merge
BeforeMerge == ParseAll(contents, <<>>, EmptyHeap)

\* C27: mergeChunkResults leaves the chunk results passed to it unchanged:
\* after a merge every Expert object of every input chunk result has the
\* contributions, expertise and specializations it had before, and merging
\* the same list of chunk results again gives an equal result.
C27_InputsUnchanged ==
    pc = "onePass" =>
        /\ \A k \in 1..Len(chunkResults) :
                Profiles(chunkResults[k], heap)
                    = Profiles(BeforeMerge.results[k], BeforeMerge.heap)
        /\ LET again == MergeChunkResults(chunkResults, MergeData, heap)
           IN Profiles(again.analysis, again.heap) = Profiles(merged, heap)


(***************************************************************************)
(* Claims about the TokenManager.                                          *)
(***************************************************************************)
\* C28: in every state that overlapping setToken, getToken, ensureToken and
\* clearToken calls reach, cachedToken is null or the token the secret store
\* holds; and a getToken called after a clearToken completed returns
\* undefined.
Cleared == \E c \in Calls : /\ tokenCalls[c].op = "clearToken"
                            /\ tokenCalls[c].at = "done"
                            /\ tokenCalls[c].result = "ok"

OnlyReadsAndClears ==
    \A c \in Calls : tokenCalls[c].op \in {"none", "getToken", "clearToken"}

C28_CacheCoherent ==
    pc = "token" =>
        /\ cachedToken = "" \/ cachedToken = secret
        /\ \A c \in Calls :
                (/\ OnlyReadsAndClears
                 /\ tokenCalls[c].op = "getToken"
                 /\ tokenCalls[c].afterClear
                 /\ tokenCalls[c].at = "done")
                => tokenCalls[c].result = ""

\* C29: a setToken that throws has left the stored secret, cachedToken and
\* the validation cache as they were, and the teamxray.setGitHubToken command
\* shows 'GitHub token saved successfully' only when a token was stored.
C29_FailedSetTokenChangesNothing ==
    pc = "token" =>
        \A c \in Calls :
            /\ (tokenCalls[c].op = "setToken" /\ tokenCalls[c].result = "threw")
                    => ~tokenCalls[c].changed
            /\ (tokenCalls[c].op = "setGitHubToken" /\ tokenCalls[c].at = "done")
                    => tokenCalls[c].stored
            /\ Len(infoMessages)
                    <= Cardinality({d \in Calls : /\ tokenCalls[d].op = "setGitHubToken"
                                                  /\ tokenCalls[d].stored})

=============================================================================
